---------------------------- MODULE Spec2Model ----------------------------
(***************************************************************************)
(* A model of the wire-protocol request parser                             *)
(* (hgproto/src/sshproto/request.rs).  Bytes are integers 0..255 and a     *)
(* byte string is a sequence of bytes.  Every parser of the source is an   *)
(* operator of the same name that returns a three-valued result, as nom's  *)
(* IResult does: Done(rest, value), Incomplete or Error(kind).             *)
(***************************************************************************)
EXTENDS Integers, Sequences, FiniteSets, Bags, TLC

(***************************************************************************)
(* Byte strings                                                            *)
(***************************************************************************)
Drop(s, n) == SubSeq(s, n + 1, Len(s))
Take(s, n) == SubSeq(s, 1, n)

\* The smallest element of a non-empty set of integers.
MinOf(I) == CHOOSE i \in I : \A j \in I : i <= j

\* A predicate on bytes is the set of the bytes that satisfy it.
Byte == 0..255

\* Iterator::position: the 0-based index of the first byte of s that is in
\* pred, or -1 when there is none.
Position(s, pred) ==
    LET I == {i \in 1..Len(s) : s[i] \in pred}
    IN  IF I = {} THEN -1 ELSE MinOf(I) - 1

\* FindSubstring for byte slices: the 0-based index of the first occurrence
\* of sub in s, or -1.
FindSubstring(s, sub) ==
    LET I == {i \in 1..(Len(s) - Len(sub) + 1) : SubSeq(s, i, i + Len(sub) - 1) = sub}
    IN  IF I = {} THEN -1 ELSE MinOf(I) - 1

RECURSIVE Concat(_)
Concat(ss) == IF ss = <<>> THEN <<>> ELSE Head(ss) \o Concat(Tail(ss))

\* slice.join(sep)
RECURSIVE Join(_, _)
Join(ss, sep) ==
    IF ss = <<>> THEN <<>>
    ELSE IF Len(ss) = 1 THEN ss[1]
    ELSE ss[1] \o sep \o Join(Tail(ss), sep)

\* slice.split(|c| c == sep): the pieces between the separators (an empty
\* slice yields one empty piece).
RECURSIVE Split(_, _)
Split(s, sep) ==
    LET p == Position(s, {sep})
    IN  IF p < 0 THEN <<s>> ELSE <<Take(s, p)>> \o Split(Drop(s, p + 1), sep)

is_digit == 48..57
is_alphanumeric == (48..57) \cup (65..90) \cup (97..122)
IsLowerHex(b) == b \in 48..57 \/ b \in 97..102
HexVal(b) == IF b \in 48..57 THEN b - 48 ELSE IF b \in 97..102 THEN b - 87 ELSE b - 55

(***************************************************************************)
(* Parameter maps: HashMap<Vec<u8>, Vec<u8>> as a function from keys to    *)
(* values.                                                                 *)
(***************************************************************************)
EmptyMap == [k \in {} |-> <<>>]
MapOnce(k, v) == [x \in {k} |-> v]
\* for (k, v) in val { ret.insert(k, v) }: an inserted key replaces the old value.
MapInsertAll_keep(ret, val) ==
    [k \in DOMAIN ret \cup DOMAIN val |-> IF k \in DOMAIN ret THEN ret[k] ELSE val[k]]
MapInsertAll(ret, val) ==
    [x \in DOMAIN ret \cup DOMAIN val |-> IF x \in DOMAIN val THEN val[x] ELSE ret[x]]
\* iter.collect() of a sequence of (key, value) pairs: a later pair replaces an earlier one.
RECURSIVE MapFromPairs(_)
MapFromPairs(ps) ==
    IF ps = <<>> THEN EmptyMap
    ELSE MapInsertAll(MapFromPairs(SubSeq(ps, 1, Len(ps) - 1)),
                      MapOnce(ps[Len(ps)][1], ps[Len(ps)][2]))

(***************************************************************************)
(* UTF-8                                                                   *)
(***************************************************************************)
IsCont(b) == b \in 128..191
\* The number of bytes of the well-formed UTF-8 sequence at the head of s, or
\* 0 when the head is ill-formed; Utf8Bad(s) is then the length of the
\* maximal ill-formed prefix that one U+FFFD replaces.
Utf8SecondOk(b1, b2) ==
    CASE b1 = 224 -> b2 \in 160..191
      [] b1 = 237 -> b2 \in 128..159
      [] b1 = 240 -> b2 \in 144..191
      [] b1 = 244 -> b2 \in 128..143
      [] OTHER -> IsCont(b2)
Utf8Width(b) ==
    IF b < 128 THEN 1
    ELSE IF b \in 194..223 THEN 2
    ELSE IF b \in 224..239 THEN 3
    ELSE IF b \in 240..244 THEN 4
    ELSE 0
Utf8Good(s) ==
    LET w == Utf8Width(s[1])
    IN  IF w = 0 \/ Len(s) < w THEN 0
        ELSE IF w = 1 THEN 1
        ELSE IF ~Utf8SecondOk(s[1], s[2]) THEN 0
        ELSE IF w >= 3 /\ ~IsCont(s[3]) THEN 0
        ELSE IF w = 4 /\ ~IsCont(s[4]) THEN 0
        ELSE w
Utf8Bad(s) ==
    LET w == Utf8Width(s[1])
    IN  IF w < 2 \/ Len(s) < 2 \/ ~Utf8SecondOk(s[1], s[2]) THEN 1
        ELSE IF w = 2 \/ Len(s) < 3 \/ ~IsCont(s[3]) THEN 2
        ELSE 3

\* str::from_utf8 / String::from_utf8 succeed exactly on well-formed input
\* (and then keep the bytes as they are).
\* The ASCII bytes at the head of s: each of them is a sequence of its own.
AsciiRun(s) == LET p == Position(s, 128..255) IN IF p < 0 THEN Len(s) ELSE p

RECURSIVE IsUtf8(_)
IsUtf8(s) ==
    LET t == Drop(s, AsciiRun(s))
    IN  IF t = <<>> THEN TRUE
        ELSE LET g == Utf8Good(t) IN g > 0 /\ IsUtf8(Drop(t, g))

\* String::from_utf8_lossy: well-formed sequences are kept, every maximal
\* ill-formed one becomes U+FFFD (EF BF BD).
RECURSIVE from_utf8_lossy(_)
from_utf8_lossy(s) ==
    LET a == AsciiRun(s)
        t == Drop(s, a)
    IN  IF t = <<>> THEN s
        ELSE LET g == Utf8Good(t)
             IN  IF g > 0 THEN Take(s, a + g) \o from_utf8_lossy(Drop(t, g))
                 ELSE Take(s, a) \o <<239, 191, 189>> \o from_utf8_lossy(Drop(t, Utf8Bad(t)))

(***************************************************************************)
(* Decimal numbers                                                         *)
(***************************************************************************)
RECURSIVE StripZeros(_)
StripZeros(d) == IF d # <<>> /\ d[1] = 48 THEN StripZeros(Tail(d)) ELSE d

\* d <= m for two digit strings without leading zeros.
RECURSIVE LexLeq(_, _)
LexLeq(d, m) ==
    IF d = <<>> THEN TRUE
    ELSE IF d[1] # m[1] THEN d[1] < m[1]
    ELSE LexLeq(Tail(d), Tail(m))
DecLeq(d, m) == Len(d) < Len(m) \/ (Len(d) = Len(m) /\ LexLeq(d, m))

RECURSIVE DecValue(_)
DecValue(d) == IF d = <<>> THEN 0 ELSE DecValue(SubSeq(d, 1, Len(d) - 1)) * 10 + (d[Len(d)] - 48)

UsizeMax == <<49, 56, 52, 52, 54, 55, 52, 52, 48, 55, 51, 55, 48, 57, 53, 53, 49, 54, 49, 53>> (* "18446744073709551615" *)
U32Max == <<52, 50, 57, 52, 57, 54, 55, 50, 57, 53>> (* "4294967295" *)

\* usize::from_str on a run of ASCII digits: [ok, val].  A value of ten digits
\* or more is larger than any buffer and is kept as 10^9.
usize_from_str(d) ==
    LET z == StripZeros(d)
    IN  IF d = <<>> \/ ~DecLeq(z, UsizeMax) THEN [ok |-> FALSE, val |-> 0]
        ELSE IF Len(z) > 9 THEN [ok |-> TRUE, val |-> 1000000000]
        ELSE [ok |-> TRUE, val |-> DecValue(z)]

\* u32::from_str on a run of ASCII digits, as far as the source uses it: [ok, nonzero].
u32_from_str(d) ==
    LET z == StripZeros(d)
    IN  IF d = <<>> \/ ~DecLeq(z, U32Max) THEN [ok |-> FALSE, nonzero |-> FALSE]
        ELSE [ok |-> TRUE, nonzero |-> z # <<>>]

(***************************************************************************)
(* nom's IResult and the combinators the source uses (nom 3)               *)
(***************************************************************************)
Done(rest, val) == [tag |-> "Done", rest |-> rest, val |-> val, err |-> ""]
Incomplete == [tag |-> "Incomplete", rest |-> <<>>, val |-> <<>>, err |-> ""]
Error(kind) == [tag |-> "Error", rest |-> <<>>, val |-> <<>>, err |-> kind]

\* tag!: Error on the first differing byte, Incomplete when the input is a
\* proper prefix of the tag.
tag(t, input) ==
    LET m == IF Len(input) < Len(t) THEN Len(input) ELSE Len(t)
    IN  IF Take(input, m) # Take(t, m) THEN Error("Tag")
        ELSE IF m < Len(t) THEN Incomplete
        ELSE Done(Drop(input, Len(t)), Take(input, Len(t)))

\* char!
char(c, input) ==
    IF input = <<>> THEN Incomplete
    ELSE IF input[1] = c THEN Done(Tail(input), c)
    ELSE Error("Char")

\* take!
take(n, input) ==
    IF Len(input) < n THEN Incomplete ELSE Done(Drop(input, n), Take(input, n))

\* take_while!: the longest prefix whose bytes satisfy pred; the end of the
\* input ends it too.
take_while(pred, input) ==
    LET n == Position(input, Byte \ pred)
    IN  IF n < 0 THEN Done(<<>>, input) ELSE Done(Drop(input, n), Take(input, n))

\* take_while1!
take_while1(pred, input) ==
    IF input = <<>> THEN Incomplete
    ELSE LET n == Position(input, Byte \ pred)
         IN  IF n = 0 THEN Error("TakeWhile1")
             ELSE IF n < 0 THEN Done(<<>>, input)
             ELSE Done(Drop(input, n), Take(input, n))

\* take_till1!
take_till1(pred, input) ==
    IF input = <<>> THEN Incomplete
    ELSE LET n == Position(input, pred)
         IN  IF n = 0 THEN Error("TakeTill1")
             ELSE IF n < 0 THEN Done(<<>>, input)
             ELSE Done(Drop(input, n), Take(input, n))

\* take_until_and_consume1!
take_until_and_consume1(sub, input) ==
    IF 1 + Len(sub) > Len(input) THEN Incomplete
    ELSE LET index == FindSubstring(input, sub)
         IN  IF index < 0 THEN Error("TakeUntilAndConsume1")
             ELSE Done(Drop(input, index + Len(sub)), Take(input, index))

\* complete!: the input is known to be whole, so Incomplete is an error.
complete(r) == IF r.tag = "Incomplete" THEN Error("Complete") ELSE r

\* A result under a name: Bind(v, LAMBDA x : e) is e with v for x.
Bind(v, k(_)) == k(v)
\* do_parse! and try_parse!: the result r unless it is Done, and then what
\* follows it.
OnDone(r, k(_)) == IF r.tag # "Done" THEN r ELSE k(r)

\* eof!
match_eof(input) == IF input = <<>> THEN Done(input, input) ELSE Error("Eof")

\* separated_list!(sep, item).  loop[pos] is the rest of the list after an
\* element that ended at offset pos: [tag, end, vals].
separated_list(sep(_), item(_), input) ==
    LET n == Len(input)
        loop[pos \in 0..n] ==
            Bind(sep(Drop(input, pos)), LAMBDA s :
              IF s.tag = "Incomplete" THEN [tag |-> "Incomplete", end |-> pos, vals |-> <<>>]
              ELSE IF s.tag = "Error" \/ Len(s.rest) = n - pos
                   THEN [tag |-> "Done", end |-> pos, vals |-> <<>>]
              ELSE Bind(item(s.rest), LAMBDA e :
                IF e.tag = "Incomplete" THEN [tag |-> "Incomplete", end |-> pos, vals |-> <<>>]
                ELSE IF e.tag = "Error" \/ Len(e.rest) = Len(s.rest)
                     THEN [tag |-> "Done", end |-> pos, vals |-> <<>>]
                ELSE [loop[n - Len(e.rest)] EXCEPT !.vals = <<e.val>> \o @]))
    IN  Bind(item(input), LAMBDA first :
          IF first.tag = "Error" THEN Done(input, <<>>)
          ELSE IF first.tag = "Incomplete" THEN Incomplete
          ELSE IF Len(first.rest) = n THEN Error("SeparatedList")
          ELSE Bind(loop[n - Len(first.rest)], LAMBDA more :
                 IF more.tag = "Incomplete" THEN Incomplete
                 ELSE Done(Drop(input, more.end), <<first.val>> \o more.vals)))

\* separated_list_complete!(sep, item) is separated_list!(complete!(sep), complete!(item)).
separated_list_complete(sep(_), item(_), input) ==
    separated_list(LAMBDA i : complete(sep(i)), LAMBDA i : complete(item(i)), input)

(***************************************************************************)
(* The parsers of request.rs                                               *)
(***************************************************************************)

\* A digit that takes the empty input for an input without digits.
digit_strict(input, isdigit) ==
    LET p == Position(input, Byte \ isdigit)
    IN  IF input = <<>> \/ p = 0 THEN Error("Digit")
        ELSE IF p < 0 THEN Incomplete
        ELSE Done(Drop(input, p), Take(input, p))

\* digit: a run of bytes of isdigit ended by another byte; the end of the
\* input does not end the run.
digit(input, isdigit) ==
    LET p == Position(input, Byte \ isdigit)
    IN  IF p < 0 THEN Incomplete
        ELSE IF p = 0 THEN Error("Digit")
        ELSE Done(Drop(input, p), Take(input, p))

\* integer: map_res!(map_res!(apply!(digit, is_digit), str::from_utf8), FromStr::from_str)
integer(input) ==
    OnDone(digit(input, is_digit), LAMBDA d :
      LET n == usize_from_str(d.val)
      IN  IF n.ok THEN Done(d.rest, n.val) ELSE Error("MapRes"))

\* ident_alphanum: [a-zA-Z_][a-zA-Z0-9_]*, ended by another byte.
ident_alphanum(input) ==
    LET letters == (97..122) \cup (65..90) \cup {95}
        I == {i \in 1..Len(input) :
                ~(input[i] \in letters \/ (input[i] \in 48..57 /\ i > 1))}
    IN  IF I = {} THEN Incomplete
        ELSE IF MinOf(I) > 1 THEN Done(Drop(input, MinOf(I) - 1), Take(input, MinOf(I) - 1))
        ELSE Error("AlphaNumeric")

\* ident: take_till1! of a byte outside [0-9a-zA-Z_%-].
ident(input) ==
    take_till1(Byte \ ((48..57) \cup (97..122) \cup (65..90) \cup {95, 45, 37}), input)

\* ident_complete(parser): r is parser's result on input; the end of the
\* input ends the identifier.
ident_complete(r, input) ==
    IF r.tag = "Incomplete" THEN Done(<<>>, input) ELSE r

\* boolean: map_res!(take_while1!(is_digit), |s| u32::from_str(s)? != 0)
boolean(input) ==
    OnDone(take_while1(is_digit, input), LAMBDA d :
      LET n == u32_from_str(d.val)
      IN  IF n.ok THEN Done(d.rest, n.nonzero) ELSE Error("MapRes"))

\* batch::unescape: ":c" ":o" ":s" ":e" stand for ":" "," ";" "=";
\* any other use of ":" is an error.  [ok, val]
RECURSIVE batch_unescape(_)
batch_unescape(bs) ==
    LET pos == Position(bs, {58})
    IN  IF pos < 0 THEN [ok |-> TRUE, val |-> bs]
        ELSE IF pos + 1 >= Len(bs) THEN [ok |-> FALSE, val |-> <<>>]
        ELSE LET c == bs[pos + 2]
                 out == CASE c = 99 -> 58
                          [] c = 111 -> 44
                          [] c = 115 -> 59
                          [] c = 101 -> 61
                          [] OTHER -> -1
                 more == batch_unescape(Drop(bs, pos + 2))
             IN  IF out < 0 \/ ~more.ok THEN [ok |-> FALSE, val |-> <<>>]
                 ELSE [ok |-> TRUE, val |-> Take(bs, pos) \o <<out>> \o more.val]

notcomma == Byte \ {44}

\* batch_param_comma_separated
batch_param_comma_separated(input) ==
    LET k == take_while(notcomma, input)
        u == batch_unescape(k.val)
    IN  IF k.val = <<>> \/ ~u.ok THEN Error("MapRes") ELSE Done(k.rest, u.val)

\* gettreepack_directories
gettreepack_directories(input) ==
    separated_list_complete(LAMBDA i : tag(<<44>> (* "," *), i), batch_param_comma_separated, input)

\* param_kv: ident <bytelen>\n<bytelen bytes>
param_kv(input) ==
    OnDone(ident_alphanum(input), LAMBDA key :
    OnDone(tag(<<32>> (* " " *), key.rest), LAMBDA sp :
    OnDone(integer(sp.rest), LAMBDA len :
    OnDone(tag(<<10>> (* "\n" *), len.rest), LAMBDA nl :
    OnDone(take(len.val, nl.rest), LAMBDA val :
      Done(val.rest, MapOnce(key.val, val.val)))))))

RECURSIVE params(_, _)
RECURSIVE params_loop(_, _, _, _)

\* param_star: "* " count "\n", then params(count)
param_star(input) ==
    OnDone(tag(<<42, 32>> (* "* " *), input), LAMBDA st :
    OnDone(integer(st.rest), LAMBDA count :
    OnDone(tag(<<10>> (* "\n" *), count.rest), LAMBDA nl :
      params(nl.rest, count.val))))

\* Counting what the "*" expands to, as a named parameter is counted.
StarAdds_expanded(kv) == Cardinality(DOMAIN kv)
\* What a "*" parameter adds to have.
StarAdds(kv) == 1
\* What a named parameter adds to have.
KvAdds(kv) == Cardinality(DOMAIN kv)

\* One turn of the loop of params: alt!(param_star | param_kv), with what
\* the alternative taken adds to have.  The value is [kv, adds].
params_alt(inp) ==
    Bind(param_star(inp), LAMBDA s :
      IF s.tag = "Done" THEN Done(s.rest, [kv |-> s.val, adds |-> StarAdds(s.val)])
      ELSE IF s.tag = "Incomplete" THEN s
      ELSE Bind(param_kv(inp), LAMBDA k :
             IF k.tag = "Done" THEN Done(k.rest, [kv |-> k.val, adds |-> KvAdds(k.val)])
             ELSE IF k.tag = "Incomplete" THEN k
             ELSE Error("Alt")))

\* An exit test that asks for one parameter more.
ParamsMore_inclusive(have, count) == have <= count
\* The exit test of the loop of params.
ParamsMore(have, count) == have < count

params_loop(inp, have, ret, count) ==
    IF ~ParamsMore(have, count) THEN Done(inp, ret)
    ELSE OnDone(params_alt(inp), LAMBDA res :
           params_loop(res.rest, have + res.val.adds, MapInsertAll(ret, res.val.kv), count))

\* params(inp, count)
params(inp, count) == params_loop(inp, 0, EmptyMap, count)

\* batch_param_escaped: name=value, both escaped; the value ends at "," or
\* at the end of the input.  The value is the pair <<key, val>>.
batch_param_escaped(input) ==
    LET key == take_until_and_consume1(<<61>> (* "=" *), input) IN
    IF key.tag # "Done" THEN key ELSE
    LET val == take_while(notcomma, key.rest)
        k == batch_unescape(key.val)
        v == batch_unescape(val.val)
    IN  IF k.ok /\ v.ok THEN Done(val.rest, <<k.val, v.val>>) ELSE Error("MapRes")

\* A decoder of batch parameters that takes a list of exactly count parameters.
batch_params_counted(input, count) ==
    OnDone(separated_list_complete(LAMBDA i : tag(<<44>> (* "," *), i), batch_param_escaped, input),
           LAMBDA l : IF Len(l.val) = count THEN Done(l.rest, MapFromPairs(l.val))
                      ELSE Error("Count"))

\* batch_params(_count): the count is not used.
batch_params(input, count) ==
    OnDone(separated_list_complete(LAMBDA i : tag(<<44>> (* "," *), i), batch_param_escaped, input),
           LAMBDA l : Done(l.rest, MapFromPairs(l.val)))

HashLen == 40

\* HgNodeHash::from_str: 40 lowercase hex digits name the 20 bytes of a hash.  [ok, val]
HgNodeHash_from_str(v) ==
    IF Len(v) = HashLen /\ \A i \in 1..Len(v) : IsLowerHex(v[i])
    THEN [ok |-> TRUE,
          val |-> [i \in 1..(HashLen \div 2) |-> 16 * HexVal(v[2 * i - 1]) + HexVal(v[2 * i])]]
    ELSE [ok |-> FALSE, val |-> <<>>]

\* nodehash: map_res!(take!(40), |v| str::parse(str::from_utf8(v)?))
nodehash(input) ==
    LET t == take(HashLen, input)
    IN  IF t.tag # "Done" THEN t
        ELSE LET h == HgNodeHash_from_str(t.val)
             IN  IF h.ok THEN Done(t.rest, h.val) ELSE Error("MapRes")

\* pair: nodehash "-" nodehash
pair(input) ==
    OnDone(nodehash(input), LAMBDA a :
    OnDone(tag(<<45>> (* "-" *), a.rest), LAMBDA dash :
    OnDone(nodehash(dash.rest), LAMBDA b :
      Done(b.rest, <<a.val, b.val>>))))

pairlist(input) == separated_list_complete(LAMBDA i : tag(<<32>> (* " " *), i), pair, input)

hashlist(input) == separated_list_complete(LAMBDA i : tag(<<32>> (* " " *), i), nodehash, input)

\* stringlist: separated_list!(complete!(tag!(" ")), take_while!(is_alphanumeric) as a String)
stringlist(input) ==
    separated_list(LAMBDA i : complete(tag(<<32>> (* " " *), i)),
                   LAMBDA i : take_while(is_alphanumeric, i), input)

\* commavalues
commavalues(input) ==
    IF Len(input) = 0 THEN Done(<<>>, <<>>) ELSE Done(<<>>, Split(input, 44))

notsemi == Byte \ {59}

\* cmd: "command parameters"; the parameters end at ";" or at the end of
\* the input.  The value is the pair <<cmd, args>>.
cmd(input) ==
    LET c == take_until_and_consume1(<<32>> (* " " *), input) IN
    IF c.tag # "Done" THEN c ELSE
    LET args == take_while(notsemi, c.rest)
    IN  Done(args.rest, <<c.val, args.val>>)

cmdlist(input) == separated_list(LAMBDA i : complete(tag(<<59>> (* ";" *), i)), cmd, input)

\* percent_encoding::percent_decode: "%" and two hex digits stand for a byte;
\* any other "%" stands for itself.
RECURSIVE percent_decode(_)
percent_decode(xs) ==
    LET p == Position(xs, {37})
    IN  IF p < 0 THEN xs
        ELSE IF Len(xs) >= p + 3
                /\ xs[p + 2] \in (48..57) \cup (65..70) \cup (97..102)
                /\ xs[p + 3] \in (48..57) \cup (65..70) \cup (97..102)
             THEN Take(xs, p) \o <<16 * HexVal(xs[p + 2]) + HexVal(xs[p + 3])>>
                      \o percent_decode(Drop(xs, p + 3))
             ELSE Take(xs, p + 1) \o percent_decode(Drop(xs, p + 1))

\* ident_string: map!(ident_complete(ident), from_utf8_lossy)
ident_string(input) ==
    OnDone(ident_complete(ident(input), input), LAMBDA r :
      Done(r.rest, from_utf8_lossy(r.val)))

\* ident_string_alphanum: map!(ident_complete(ident_alphanum), from_utf8_lossy)
ident_string_alphanum(input) ==
    OnDone(ident_complete(ident_alphanum(input), input), LAMBDA r :
      Done(r.rest, from_utf8_lossy(r.val)))

\* percent_decoded: map!(ident_complete(ident), percent_decode)
percent_decoded(input) ==
    OnDone(ident_complete(ident(input), input), LAMBDA r :
      Done(r.rest, percent_decode(r.val)))

\* percent_decoded_string: map_res!(percent_decoded, String::from_utf8)
percent_decoded_string(input) ==
    OnDone(percent_decoded(input), LAMBDA r :
      IF IsUtf8(r.val) THEN r ELSE Error("MapRes"))

\* utf8_string_complete
utf8_string_complete(inp) ==
    IF IsUtf8(inp) THEN Done(<<>>, inp) ELSE Error("Custom111")

\* bytes_complete
bytes_complete(inp) == Done(<<>>, inp)

SeqToSet(l) == {l[i] : i \in 1..Len(l)}

\* bundlecaps_values_list: the values of one param, as a set.
bundlecaps_values_list(input) ==
    Bind(complete(separated_list_complete(LAMBDA i : tag(<<44>> (* "," *), i),
                                          percent_decoded_string, input)), LAMBDA l :
      IF l.tag = "Done" THEN Done(l.rest, SeqToSet(l.val))
      ELSE Bind(complete(percent_decoded_string(input)), LAMBDA one :
             IF one.tag = "Done" THEN Done(one.rest, {one.val}) ELSE Error("Alt")))

\* bundlecaps_param: name=values, or a bare name.  The value is <<name, values>>.
bundlecaps_param(input) ==
    Bind(percent_decoded_string(input), LAMBDA a :
      IF a.tag # "Done" THEN Error("Alt")
      ELSE Bind(OnDone(tag(<<61>> (* "=" *), a.rest), LAMBDA eq : bundlecaps_values_list(eq.rest)),
                LAMBDA vs : IF vs.tag = "Done" THEN Done(vs.rest, <<a.val, vs.val>>)
                            ELSE Done(a.rest, <<a.val, {}>>)))

\* bundlecaps_params: params separated by "\n", as a map.
bundlecaps_params(input) ==
    OnDone(separated_list_complete(LAMBDA i : tag(<<10>> (* "\n" *), i), bundlecaps_param, input),
           LAMBDA l : Done(l.rest, MapFromPairs(l.val)))

\* bundlecaps_params_decoded: percent-decode, then bundlecaps_params on the
\* decoded bytes; what that parse leaves over is dropped.
bundlecaps_params_decoded(input) ==
    OnDone(percent_decoded(input), LAMBDA y :
    OnDone(bundlecaps_params(y.val), LAMBDA z :
      Done(y.rest, z.val)))

\* bundlecaps_arg: cap=params, or a bare cap.  The value is <<cap, params>>.
bundlecaps_arg(input) ==
    Bind(ident_string(input), LAMBDA a :
      IF a.tag # "Done" THEN Error("Alt")
      ELSE Bind(OnDone(char(61, a.rest), LAMBDA eq : bundlecaps_params_decoded(eq.rest)),
                LAMBDA ps : IF ps.tag = "Done" THEN Done(ps.rest, <<a.val, ps.val>>)
                            ELSE Done(a.rest, <<a.val, EmptyMap>>)))

\* bundlecaps_args: caps separated by ",", as a map.
bundlecaps_args(input) ==
    OnDone(separated_list_complete(LAMBDA i : char(44, i), bundlecaps_arg, input),
           LAMBDA l : Done(l.rest, MapFromPairs(l.val)))

\* The closure that parses gettreepack's depth:
\* map_res!(map_res!(take_while1!(is_digit), str::from_utf8), usize::from_str)
depth_parser(input) ==
    OnDone(take_while1(is_digit, input), LAMBDA d :
      LET n == usize_from_str(d.val)
      IN  IF n.ok THEN Done(d.rest, n.val) ELSE Error("MapRes"))

\* The value parsers handed to parseval, by name.
ApplyParser(parser, v) ==
    CASE parser = "pairlist" -> pairlist(v)
      [] parser = "hashlist" -> hashlist(v)
      [] parser = "stringlist" -> stringlist(v)
      [] parser = "commavalues" -> commavalues(v)
      [] parser = "boolean" -> boolean(v)
      [] parser = "cmdlist" -> cmdlist(v)
      [] parser = "ident_complete(ident_alphanum)" -> ident_complete(ident_alphanum(v), v)
      [] parser = "ident_string_alphanum" -> ident_string_alphanum(v)
      [] parser = "utf8_string_complete" -> utf8_string_complete(v)
      [] parser = "bytes_complete" -> bytes_complete(v)
      [] parser = "bundlecaps_args" -> bundlecaps_args(v)
      [] parser = "gettreepack_directories" -> gettreepack_directories(v)
      [] parser = "depth" -> depth_parser(v)

(***************************************************************************)
(* Result<T>: Ok(val) or Err(err), err being the text of bail_msg! and key *)
(* the parameter it is about.                                              *)
(***************************************************************************)
Ok(val) == [ok |-> TRUE, val |-> val, err |-> "", key |-> <<>>]
Err(err, key) == [ok |-> FALSE, val |-> <<>>, err |-> err, key |-> key]

\* Taking the parsed value whatever the parser left over.
ParsedValue_lenient(r, key) ==
    IF r.tag = "Done" THEN Ok(r.val)
    ELSE IF r.tag = "Incomplete" THEN Err("param parse incomplete", key)
    ELSE Err("param parse failed", key)

\* What parseval and its two variants make of the parser's result r on the
\* value of key: the value is taken only if the parser left nothing over.
ParsedValue(r, key) ==
    IF r.tag = "Done"
    THEN IF match_eof(r.rest).tag = "Done" THEN Ok(r.val)
         ELSE Err("Unconsumed characters remain after parsing param", key)
    ELSE IF r.tag = "Incomplete" THEN Err("param parse incomplete", key)
    ELSE Err("param parse failed", key)

\* parseval: a missing param is an error.
parseval(kv, key, parser) ==
    IF key \notin DOMAIN kv THEN Err("missing param", key)
    ELSE ParsedValue(ApplyParser(parser, kv[key]), key)

\* parseval_default: a missing param is T::default().
parseval_default(kv, key, parser, default) ==
    IF key \notin DOMAIN kv THEN Ok(default)
    ELSE ParsedValue(ApplyParser(parser, kv[key]), key)

\* The "?" operator: the error r, or what follows with its value.
OnOk(r, k(_)) == IF r.ok THEN k(r.val) ELSE r

\* Option<T>
None == [some |-> FALSE, val |-> <<>>]
Some(v) == [some |-> TRUE, val |-> v]

\* parseval_option: a missing param is None.
parseval_option(kv, key, parser) ==
    IF key \notin DOMAIN kv THEN Ok(None)
    ELSE OnOk(ParsedValue(ApplyParser(parser, kv[key]), key), LAMBDA v : Ok(Some(v)))

\* T::default()
DefaultOf(parser) ==
    CASE parser = "boolean" -> FALSE
      [] parser = "bundlecaps_args" -> EmptyMap
      [] OTHER -> <<>>

\* One field of a constructor: the struct field, the key, the function that
\* reads it and the parser handed to that function.
Field(name, key, fn, parser) == [name |-> name, key |-> key, fn |-> fn, parser |-> parser]

\* The fields of the constructor of each request, in the order the
\* constructor reads them.
Fields(req) ==
    CASE req = "Between" -> << Field("pairs", <<112, 97, 105, 114, 115>> (* "pairs" *), "parseval", "pairlist") >>
      [] req = "Debugwireargs" ->
           << Field("one", <<111, 110, 101>> (* "one" *), "parseval", "ident_complete(ident_alphanum)"),
              Field("two", <<116, 119, 111>> (* "two" *), "parseval", "ident_complete(ident_alphanum)") >>
      [] req = "Getbundle" ->
           << Field("heads", <<104, 101, 97, 100, 115>> (* "heads" *), "parseval_default", "hashlist"),
              Field("common", <<99, 111, 109, 109, 111, 110>> (* "common" *), "parseval_default", "hashlist"),
              Field("bundlecaps", <<98, 117, 110, 100, 108, 101, 99, 97, 112, 115>> (* "bundlecaps" *), "parseval_default", "bundlecaps_args"),
              Field("listkeys", <<108, 105, 115, 116, 107, 101, 121, 115>> (* "listkeys" *), "parseval_default", "commavalues"),
              Field("phases", <<112, 104, 97, 115, 101, 115>> (* "phases" *), "parseval_default", "boolean") >>
      [] req = "Listkeys" ->
           << Field("namespace", <<110, 97, 109, 101, 115, 112, 97, 99, 101>> (* "namespace" *), "parseval", "ident_string_alphanum") >>
      [] req = "Lookup" -> << Field("key", <<107, 101, 121>> (* "key" *), "parseval", "utf8_string_complete") >>
      [] req = "Known" -> << Field("nodes", <<110, 111, 100, 101, 115>> (* "nodes" *), "parseval", "hashlist") >>
      [] req = "Unbundle" -> << Field("heads", <<104, 101, 97, 100, 115>> (* "heads" *), "parseval", "stringlist") >>
      [] req = "Gettreepack" ->
           << Field("rootdir", <<114, 111, 111, 116, 100, 105, 114>> (* "rootdir" *), "parseval", "bytes_complete"),
              Field("mfnodes", <<109, 102, 110, 111, 100, 101, 115>> (* "mfnodes" *), "parseval", "hashlist"),
              Field("basemfnodes", <<98, 97, 115, 101, 109, 102, 110, 111, 100, 101, 115>> (* "basemfnodes" *), "parseval", "hashlist"),
              Field("directories", <<100, 105, 114, 101, 99, 116, 111, 114, 105, 101, 115>> (* "directories" *), "parseval", "gettreepack_directories"),
              Field("depth", <<100, 101, 112, 116, 104>> (* "depth" *), "parseval_option", "depth") >>
      [] req = "Batch" -> << Field("cmds", <<99, 109, 100, 115>> (* "cmds" *), "parseval", "cmdlist") >>
      [] OTHER -> <<>>

\* One field of a constructor read from kv.
field_value(kv, f) ==
    CASE f.fn = "parseval" -> parseval(kv, f.key, f.parser)
      [] f.fn = "parseval_default" ->
           parseval_default(kv, f.key, f.parser, DefaultOf(f.parser))
      [] f.fn = "parseval_option" -> parseval_option(kv, f.key, f.parser)

\* The fields from the i-th on, each followed by "?": the request built, or
\* the error of the first field that fails.
RECURSIVE construct(_, _, _, _)
construct(kv, fs, i, built) ==
    IF i > Len(fs) THEN Ok(built)
    ELSE OnOk(field_value(kv, fs[i]), LAMBDA v :
           construct(kv, fs, i + 1, built @@ (fs[i].name :> v)))

\* The constructors handed to parse_command: func(kv) for the request req.
func(req, kv) ==
    construct(kv, Fields(req), 1,
              IF req = "Debugwireargs" THEN [cmd |-> req, all_args |-> kv]
              ELSE [cmd |-> req])

\* The two parameter syntaxes handed to parse_command, by name.
ApplyParams(parse_params, input, nargs) ==
    IF parse_params = "params" THEN params(input, nargs) ELSE batch_params(input, nargs)

\* The do_parse! of parse_command: the name, "\n", then the parameters.
command_params(inp, name, parse_params, nargs) ==
    OnDone(tag(name, inp), LAMBDA c :
    OnDone(tag(<<10>> (* "\n" *), c.rest), LAMBDA nl :
      ApplyParams(parse_params, nl.rest, nargs)))

\* parse_command: the parameters handed to the constructor; a constructor's
\* error becomes Error(Custom(999999)).
parse_command(inp, name, parse_params, nargs, req) ==
    OnDone(command_params(inp, name, parse_params, nargs), LAMBDA p :
      Bind(func(req, p.val), LAMBDA t :
        IF t.ok THEN Done(p.rest, t.val) ELSE Error("Custom999999")))

\* The alternatives of parse_with_params, in the order of the source, with
\* the number of parameters each one asks for.
CommandTable ==
    << [name |-> <<98, 101, 116, 119, 101, 101, 110>> (* "between" *), nargs |-> 1, req |-> "Between"],
       [name |-> <<98, 114, 97, 110, 99, 104, 109, 97, 112>> (* "branchmap" *), nargs |-> 0, req |-> "Branchmap"],
       [name |-> <<99, 97, 112, 97, 98, 105, 108, 105, 116, 105, 101, 115>> (* "capabilities" *), nargs |-> 0, req |-> "Capabilities"],
       [name |-> <<100, 101, 98, 117, 103, 119, 105, 114, 101, 97, 114, 103, 115>> (* "debugwireargs" *), nargs |-> 2 + 1, req |-> "Debugwireargs"],
       [name |-> <<103, 101, 116, 98, 117, 110, 100, 108, 101>> (* "getbundle" *), nargs |-> 0 + 1, req |-> "Getbundle"],
       [name |-> <<104, 101, 97, 100, 115>> (* "heads" *), nargs |-> 0, req |-> "Heads"],
       [name |-> <<104, 101, 108, 108, 111>> (* "hello" *), nargs |-> 0, req |-> "Hello"],
       [name |-> <<108, 105, 115, 116, 107, 101, 121, 115>> (* "listkeys" *), nargs |-> 1, req |-> "Listkeys"],
       [name |-> <<108, 111, 111, 107, 117, 112>> (* "lookup" *), nargs |-> 1, req |-> "Lookup"],
       [name |-> <<107, 110, 111, 119, 110>> (* "known" *), nargs |-> 1 + 1, req |-> "Known"],
       [name |-> <<117, 110, 98, 117, 110, 100, 108, 101>> (* "unbundle" *), nargs |-> 1, req |-> "Unbundle"],
       [name |-> <<103, 101, 116, 116, 114, 101, 101, 112, 97, 99, 107>> (* "gettreepack" *), nargs |-> 0 + 1, req |-> "Gettreepack"],
       [name |-> <<103, 101, 116, 102, 105, 108, 101, 115>> (* "getfiles" *), nargs |-> 0, req |-> "Getfiles"],
       [name |-> <<115, 116, 114, 101, 97, 109, 95, 111, 117, 116, 95, 115, 104, 97, 108, 108, 111, 119>> (* "stream_out_shallow" *), nargs |-> 0 + 1, req |-> "StreamOutShallow"] >>

\* alt! over the alternatives from the i-th on: the first result that is not
\* an Error.
RECURSIVE alt_commands(_, _, _)
\* alt! over the alternatives from the i-th on: the first result that is not
\* an Error.
alt_commands(inp, parse_params, i) ==
    IF i > Len(CommandTable) THEN Error("Alt")
    ELSE Bind(parse_command(inp, CommandTable[i].name, parse_params,
                            CommandTable[i].nargs, CommandTable[i].req), LAMBDA r :
           IF r.tag # "Error" THEN r ELSE alt_commands(inp, parse_params, i + 1))

\* parse_with_params
parse_with_params(inp, parse_params) == alt_commands(inp, parse_params, 1)

\* parse_singlerequest
parse_singlerequest(inp) == parse_with_params(inp, "params")

\* parse_cmd of parse_batchrequest, on the bytes of one batched command:
\* complete!(parse_cmd), and nothing may be left over.
\* A parse_cmd that lets a command leave bytes unparsed.
parse_cmd_rest(full_cmd) == complete(parse_with_params(full_cmd, "batch_params"))

\* A parse_cmd that takes a command it cannot parse for one that is not
\* whole yet.
parse_cmd_unfinished(full_cmd) ==
    Bind(parse_with_params(full_cmd, "batch_params"), LAMBDA r :
      IF r.tag = "Done" /\ r.rest # <<>> THEN Error("Eof")
      ELSE IF r.tag = "Error" THEN Incomplete ELSE r)

\* parse_cmd of parse_batchrequest, on the bytes of one batched command:
\* complete!(parse_cmd), and nothing may be left over.
parse_cmd(full_cmd) ==
    Bind(complete(parse_with_params(full_cmd, "batch_params")), LAMBDA r :
      IF r.tag = "Done" /\ r.rest # <<>> THEN Error("Eof") ELSE r)

\* The loop of parse_batchrequest over the commands from the i-th on: the
\* requests parsed, or the first failure.
\* A loop over the commands that drops the ones that fail.
RECURSIVE parse_cmds_skip(_, _)
\* A loop over the commands that drops the ones that fail.
parse_cmds_skip(cmds, i) ==
    IF i > Len(cmds) THEN Done(<<>>, <<>>)
    ELSE Bind(parse_cmd(Join(<<cmds[i][1], cmds[i][2]>>, <<10>> (* "\n" *))), LAMBDA r :
         Bind(parse_cmds_skip(cmds, i + 1), LAMBDA more :
           IF r.tag = "Done" THEN Done(<<>>, <<r.val>> \o more.val) ELSE more))

RECURSIVE parse_cmds(_, _)
\* The loop of parse_batchrequest over the commands from the i-th on: the
\* requests parsed, or the first failure.
parse_cmds(cmds, i) ==
    IF i > Len(cmds) THEN Done(<<>>, <<>>)
    ELSE OnDone(parse_cmd(Join(<<cmds[i][1], cmds[i][2]>>, <<10>> (* "\n" *))), LAMBDA r :
         OnDone(parse_cmds(cmds, i + 1), LAMBDA more :
           Done(<<>>, <<r.val>> \o more.val)))

\* parse_batchrequest
parse_batchrequest(inp) ==
    OnDone(parse_command(inp, <<98, 97, 116, 99, 104>> (* "batch" *), "params", 1 + 1, "Batch"), LAMBDA b :
    OnDone(parse_cmds(b.val.cmds, 1), LAMBDA parsed_cmds :
      Done(b.rest, parsed_cmds.val)))

\* Request
Batch(reqs) == [kind |-> "Batch", val |-> reqs]
Single(req) == [kind |-> "Single", val |-> req]

\* The same alternatives under alt_complete!: an Incomplete counts as an Error.
parse_alt_complete(buf) ==
    Bind(complete(parse_batchrequest(buf)), LAMBDA b :
      IF b.tag = "Done" THEN Done(b.rest, Batch(b.val))
      ELSE Bind(complete(parse_singlerequest(buf)), LAMBDA q :
             IF q.tag = "Done" THEN Done(q.rest, Single(q.val)) ELSE Error("Alt")))

\* alt!(map!(parse_batchrequest, Request::Batch) | map!(parse_singlerequest, Request::Single))
parse_alt(buf) ==
    Bind(parse_batchrequest(buf), LAMBDA b :
      IF b.tag = "Done" THEN Done(b.rest, Batch(b.val))
      ELSE IF b.tag = "Incomplete" THEN b
      ELSE Bind(parse_singlerequest(buf), LAMBDA q :
             IF q.tag = "Done" THEN Done(q.rest, Single(q.val))
             ELSE IF q.tag = "Incomplete" THEN q
             ELSE Error("Alt")))

\* The alternatives alt! runs on buf: the next one only after an Error.
alt_branches(buf) ==
    IF parse_batchrequest(buf).tag = "Error" THEN << "parse_batchrequest", "parse_singlerequest" >>
    ELSE << "parse_batchrequest" >>

\* Result<Option<Request>>
OkNone == [kind |-> "Ok(None)", val |-> <<>>]
OkSome(request) == [kind |-> "Ok(Some)", val |-> request]
ErrCommandParse(raw) == [kind |-> "Err(CommandParse)", val |-> raw]

\* What the error of parse_request carries.
\* An error that carries the bytes as they are.
ErrorText_bytes(buf) == buf
ErrorText(buf) == from_utf8_lossy(buf)
\* How many bytes parse_request takes off the buffer on Done(rest, _).
\* Taking the whole buffer, and taking one byte too few.
Consumed_all(origlen, rest) == origlen
Consumed_short(origlen, rest) == origlen - Len(rest) - 1
Consumed(origlen, rest) == origlen - Len(rest)

\* A parse_request that throws the buffer away when it returns Err.
parse_request_drain(buf) ==
    Bind(parse_alt(buf), LAMBDA parse_res :
      CASE parse_res.tag = "Done" ->
             [result |-> OkSome(parse_res.val),
              buf |-> Drop(buf, Consumed(Len(buf), parse_res.rest))]
        [] parse_res.tag = "Incomplete" -> [result |-> OkNone, buf |-> buf]
        [] parse_res.tag = "Error" ->
             [result |-> ErrCommandParse(ErrorText(buf)), buf |-> <<>>])

\* parse_request: [result, buf], buf being the buffer after the call.
parse_request(buf) ==
    Bind(parse_alt(buf), LAMBDA parse_res :
      CASE parse_res.tag = "Done" ->
             [result |-> OkSome(parse_res.val),
              buf |-> Drop(buf, Consumed(Len(buf), parse_res.rest))]
        [] parse_res.tag = "Incomplete" -> [result |-> OkNone, buf |-> buf]
        [] parse_res.tag = "Error" ->
             [result |-> ErrCommandParse(ErrorText(buf)), buf |-> buf])

(***************************************************************************)
(* The wire format, written down independently of the parsers: how a       *)
(* client encodes a request.  It is what "a valid encoding" means below.   *)
(***************************************************************************)
RECURSIVE Dec(_)
Dec(n) == IF n < 10 THEN <<48 + n>> ELSE Dec(n \div 10) \o <<48 + (n % 10)>>

HexDigit(v) == IF v < 10 THEN 48 + v ELSE 87 + v
RECURSIVE HexOf(_)
HexOf(h) ==
    IF h = <<>> THEN <<>>
    ELSE <<HexDigit(Head(h) \div 16), HexDigit(Head(h) % 16)>> \o HexOf(Tail(h))

\* A node hash whose 20 bytes are all b.
NodeHash(b) == [i \in 1..(HashLen \div 2) |-> b]

\* <ident> <len>\n<value>
KV(key, val) == key \o <<32>> (* " " *) \o Dec(Len(val)) \o <<10>> (* "\n" *) \o val
\* * <count>\n followed by count keyed parameters
Star(kvs) == <<42, 32>> (* "* " *) \o Dec(Len(kvs)) \o <<10>> (* "\n" *) \o Concat(kvs)
\* <name>\n<params>
Command(name, ps) == name \o <<10>> (* "\n" *) \o ps
\* The escape alphabet of batch arguments.
RECURSIVE Escape(_)
Escape(bs) ==
    IF bs = <<>> THEN <<>>
    ELSE (CASE bs[1] = 58 -> <<58, 99>> (* ":c" *)
            [] bs[1] = 44 -> <<58, 111>> (* ":o" *)
            [] bs[1] = 59 -> <<58, 115>> (* ":s" *)
            [] bs[1] = 61 -> <<58, 101>> (* ":e" *)
            [] OTHER -> <<bs[1]>>) \o Escape(Tail(bs))
\* batch\n* 0\ncmds <len>\n<cmd1;cmd2;...>
BatchEnvelope(texts) == Command(<<98, 97, 116, 99, 104>> (* "batch" *), Star(<<>>) \o KV(<<99, 109, 100, 115>> (* "cmds" *), Join(texts, <<59>> (* ";" *))))

H1 == NodeHash(17)
H2 == NodeHash(34)
HAB == NodeHash(171)

\* Single commands: <<encoding, request>>.
SingleCases ==
    { <<Command(<<104, 101, 97, 100, 115>> (* "heads" *), <<>>), [cmd |-> "Heads"]>>,
      <<Command(<<104, 101, 108, 108, 111>> (* "hello" *), <<>>), [cmd |-> "Hello"]>>,
      <<Command(<<98, 114, 97, 110, 99, 104, 109, 97, 112>> (* "branchmap" *), <<>>), [cmd |-> "Branchmap"]>>,
      <<Command(<<99, 97, 112, 97, 98, 105, 108, 105, 116, 105, 101, 115>> (* "capabilities" *), <<>>), [cmd |-> "Capabilities"]>>,
      <<Command(<<103, 101, 116, 102, 105, 108, 101, 115>> (* "getfiles" *), <<>>), [cmd |-> "Getfiles"]>>,
      <<Command(<<98, 101, 116, 119, 101, 101, 110>> (* "between" *), KV(<<112, 97, 105, 114, 115>> (* "pairs" *), <<>>)), [cmd |-> "Between", pairs |-> <<>>]>>,
      <<Command(<<98, 101, 116, 119, 101, 101, 110>> (* "between" *), KV(<<112, 97, 105, 114, 115>> (* "pairs" *), HexOf(H1) \o <<45>> (* "-" *) \o HexOf(H2))),
        [cmd |-> "Between", pairs |-> << <<H1, H2>> >>]>>,
      <<Command(<<98, 101, 116, 119, 101, 101, 110>> (* "between" *), KV(<<112, 97, 105, 114, 115>> (* "pairs" *), HexOf(H1) \o <<45>> (* "-" *) \o HexOf(H2) \o <<32>> (* " " *)
                                          \o HexOf(HAB) \o <<45>> (* "-" *) \o HexOf(H1))),
        [cmd |-> "Between", pairs |-> << <<H1, H2>>, <<HAB, H1>> >>]>>,
      <<Command(<<100, 101, 98, 117, 103, 119, 105, 114, 101, 97, 114, 103, 115>> (* "debugwireargs" *), Star(<<KV(<<116, 104, 114, 101, 101>> (* "three" *), <<84, 72, 82, 69, 69>> (* "THREE" *)), KV(<<101, 109, 112, 116, 121>> (* "empty" *), <<>>)>>)
                                   \o KV(<<111, 110, 101>> (* "one" *), <<79, 78, 69>> (* "ONE" *)) \o KV(<<116, 119, 111>> (* "two" *), <<84, 87, 79>> (* "TWO" *))),
        [cmd |-> "Debugwireargs", one |-> <<79, 78, 69>> (* "ONE" *), two |-> <<84, 87, 79>> (* "TWO" *),
         all_args |-> MapFromPairs(<< <<<<111, 110, 101>> (* "one" *), <<79, 78, 69>> (* "ONE" *)>>, <<<<116, 119, 111>> (* "two" *), <<84, 87, 79>> (* "TWO" *)>>,
                                      <<<<116, 104, 114, 101, 101>> (* "three" *), <<84, 72, 82, 69, 69>> (* "THREE" *)>>, <<<<101, 109, 112, 116, 121>> (* "empty" *), <<>>>> >>)]>>,
      <<Command(<<100, 101, 98, 117, 103, 119, 105, 114, 101, 97, 114, 103, 115>> (* "debugwireargs" *), KV(<<116, 119, 111>> (* "two" *), <<116, 50>> (* "t2" *)) \o Star(<<>>) \o KV(<<111, 110, 101>> (* "one" *), <<111>> (* "o" *))),
        [cmd |-> "Debugwireargs", one |-> <<111>> (* "o" *), two |-> <<116, 50>> (* "t2" *),
         all_args |-> MapFromPairs(<< <<<<111, 110, 101>> (* "one" *), <<111>> (* "o" *)>>, <<<<116, 119, 111>> (* "two" *), <<116, 50>> (* "t2" *)>> >>)]>>,
      <<Command(<<103, 101, 116, 98, 117, 110, 100, 108, 101>> (* "getbundle" *), Star(<<>>)),
        [cmd |-> "Getbundle", heads |-> <<>>, common |-> <<>>, bundlecaps |-> EmptyMap,
         listkeys |-> <<>>, phases |-> FALSE]>>,
      <<Command(<<103, 101, 116, 98, 117, 110, 100, 108, 101>> (* "getbundle" *),
                Star(<<KV(<<104, 101, 97, 100, 115>> (* "heads" *), HexOf(H1)),
                       KV(<<99, 111, 109, 109, 111, 110>> (* "common" *), HexOf(H2) \o <<32>> (* " " *) \o HexOf(HAB)),
                       KV(<<98, 117, 110, 100, 108, 101, 99, 97, 112, 115>> (* "bundlecaps" *), <<99, 97, 112, 49, 44, 67, 65, 80, 50>> (* "cap1,CAP2" *)),
                       KV(<<108, 105, 115, 116, 107, 101, 121, 115>> (* "listkeys" *), <<107, 101, 121, 49, 44, 107, 101, 121, 50>> (* "key1,key2" *)),
                       KV(<<112, 104, 97, 115, 101, 115>> (* "phases" *), <<49>> (* "1" *)),
                       KV(<<101, 120, 116, 114, 97>> (* "extra" *), <<101, 120, 116, 114, 97>> (* "extra" *))>>)),
        [cmd |-> "Getbundle", heads |-> <<H1>>, common |-> <<H2, HAB>>,
         bundlecaps |-> MapFromPairs(<< <<<<99, 97, 112, 49>> (* "cap1" *), EmptyMap>>, <<<<67, 65, 80, 50>> (* "CAP2" *), EmptyMap>> >>),
         listkeys |-> <<<<107, 101, 121, 49>> (* "key1" *), <<107, 101, 121, 50>> (* "key2" *)>>, phases |-> TRUE]>>,
      <<Command(<<103, 101, 116, 98, 117, 110, 100, 108, 101>> (* "getbundle" *),
                Star(<<KV(<<98, 117, 110, 100, 108, 101, 99, 97, 112, 115>> (* "bundlecaps" *), <<98, 108, 111, 99, 107, 44, 101, 61, 101, 110, 116, 114, 121, 37, 48, 65, 108, 105, 115, 116, 37, 51, 68, 49, 37, 50, 67, 120, 37, 48, 65, 100, 37, 51, 68, 116, 37, 50, 53, 51, 65, 49>> (* "block,e=entry%0Alist%3D1%2Cx%0Ad%3Dt%253A1" *)),
                       KV(<<112, 104, 97, 115, 101, 115>> (* "phases" *), <<48>> (* "0" *))>>)),
        [cmd |-> "Getbundle", heads |-> <<>>, common |-> <<>>,
         bundlecaps |-> MapFromPairs(<< <<<<98, 108, 111, 99, 107>> (* "block" *), EmptyMap>>,
             <<<<101>> (* "e" *), MapFromPairs(<< <<<<101, 110, 116, 114, 121>> (* "entry" *), {}>>, <<<<108, 105, 115, 116>> (* "list" *), {<<49>> (* "1" *), <<120>> (* "x" *)}>>,
                                     <<<<100>> (* "d" *), {<<116, 58, 49>> (* "t:1" *)}>> >>)>> >>),
         listkeys |-> <<>>, phases |-> FALSE]>>,
      <<Command(<<108, 105, 115, 116, 107, 101, 121, 115>> (* "listkeys" *), KV(<<110, 97, 109, 101, 115, 112, 97, 99, 101>> (* "namespace" *), <<98, 111, 111, 107, 109, 97, 114, 107, 115>> (* "bookmarks" *))),
        [cmd |-> "Listkeys", namespace |-> <<98, 111, 111, 107, 109, 97, 114, 107, 115>> (* "bookmarks" *)]>>,
      <<Command(<<108, 111, 111, 107, 117, 112>> (* "lookup" *), KV(<<107, 101, 121>> (* "key" *), <<53, 99, 55, 57>> (* "5c79" *))), [cmd |-> "Lookup", key |-> <<53, 99, 55, 57>> (* "5c79" *)]>>,
      <<Command(<<108, 111, 111, 107, 117, 112>> (* "lookup" *), KV(<<107, 101, 121>> (* "key" *), <<99, 97, 102, 195, 169, 32, 49, 10>> (* "caf\xc3\xa9 1\n" *))),
        [cmd |-> "Lookup", key |-> <<99, 97, 102, 195, 169, 32, 49, 10>> (* "caf\xc3\xa9 1\n" *)]>>,
      <<Command(<<108, 111, 111, 107, 117, 112>> (* "lookup" *), KV(<<107, 101, 121>> (* "key" *), <<>>)), [cmd |-> "Lookup", key |-> <<>>]>>,
      <<Command(<<107, 110, 111, 119, 110>> (* "known" *), Star(<<>>) \o KV(<<110, 111, 100, 101, 115>> (* "nodes" *), <<>>)), [cmd |-> "Known", nodes |-> <<>>]>>,
      <<Command(<<107, 110, 111, 119, 110>> (* "known" *), Star(<<>>) \o KV(<<110, 111, 100, 101, 115>> (* "nodes" *), HexOf(H1))),
        [cmd |-> "Known", nodes |-> <<H1>>]>>,
      <<Command(<<107, 110, 111, 119, 110>> (* "known" *), Star(<<KV(<<110, 111, 100, 101, 115>> (* "nodes" *), HexOf(HAB) \o <<32>> (* " " *) \o HexOf(H2))>>)
                          \o KV(<<120>> (* "x" *), <<>>)),
        [cmd |-> "Known", nodes |-> <<HAB, H2>>]>>,
      <<Command(<<117, 110, 98, 117, 110, 100, 108, 101>> (* "unbundle" *), KV(<<104, 101, 97, 100, 115>> (* "heads" *), <<54, 54, 54, 102, 55, 50, 54, 51, 54, 53>> (* "666f726365" *))),
        [cmd |-> "Unbundle", heads |-> <<<<54, 54, 54, 102, 55, 50, 54, 51, 54, 53>> (* "666f726365" *)>>]>>,
      <<Command(<<117, 110, 98, 117, 110, 100, 108, 101>> (* "unbundle" *), KV(<<104, 101, 97, 100, 115>> (* "heads" *), <<97, 98, 32, 49, 50>> (* "ab 12" *))),
        [cmd |-> "Unbundle", heads |-> <<<<97, 98>> (* "ab" *), <<49, 50>> (* "12" *)>>]>>,
      <<Command(<<103, 101, 116, 116, 114, 101, 101, 112, 97, 99, 107>> (* "gettreepack" *),
                Star(<<KV(<<114, 111, 111, 116, 100, 105, 114>> (* "rootdir" *), <<>>), KV(<<109, 102, 110, 111, 100, 101, 115>> (* "mfnodes" *), HexOf(H1)),
                       KV(<<98, 97, 115, 101, 109, 102, 110, 111, 100, 101, 115>> (* "basemfnodes" *), HexOf(H1)), KV(<<100, 105, 114, 101, 99, 116, 111, 114, 105, 101, 115>> (* "directories" *), <<>>)>>)),
        [cmd |-> "Gettreepack", rootdir |-> <<>>, mfnodes |-> <<H1>>, basemfnodes |-> <<H1>>,
         directories |-> <<>>, depth |-> None]>>,
      <<Command(<<103, 101, 116, 116, 114, 101, 101, 112, 97, 99, 107>> (* "gettreepack" *),
                Star(<<KV(<<100, 101, 112, 116, 104>> (* "depth" *), <<49>> (* "1" *)), KV(<<114, 111, 111, 116, 100, 105, 114>> (* "rootdir" *), <<111, 108, 111, 108, 111>> (* "ololo" *)),
                       KV(<<109, 102, 110, 111, 100, 101, 115>> (* "mfnodes" *), HexOf(H1) \o <<32>> (* " " *) \o HexOf(H2)),
                       KV(<<98, 97, 115, 101, 109, 102, 110, 111, 100, 101, 115>> (* "basemfnodes" *), <<>>), KV(<<100, 105, 114, 101, 99, 116, 111, 114, 105, 101, 115>> (* "directories" *), <<58, 111, 44, 58, 115>> (* ":o,:s" *))>>)),
        [cmd |-> "Gettreepack", rootdir |-> <<111, 108, 111, 108, 111>> (* "ololo" *), mfnodes |-> <<H1, H2>>,
         basemfnodes |-> <<>>, directories |-> <<<<44>> (* "," *), <<59>> (* ";" *)>>, depth |-> Some(1)]>>,
      <<Command(<<115, 116, 114, 101, 97, 109, 95, 111, 117, 116, 95, 115, 104, 97, 108, 108, 111, 119>> (* "stream_out_shallow" *), Star(<<KV(<<110, 111, 102, 108, 97, 116, 109, 97, 110, 105, 102, 101, 115, 116>> (* "noflatmanifest" *), <<84, 114, 117, 101>> (* "True" *))>>)),
        [cmd |-> "StreamOutShallow"]>> }

\* Commands as they are written inside a batch: <<text, request>>.
GoodSubCmds ==
    { <<<<104, 101, 108, 108, 111, 32>> (* "hello " *), [cmd |-> "Hello"]>>,
      <<<<107, 110, 111, 119, 110, 32, 110, 111, 100, 101, 115, 61>> (* "known nodes=" *) \o HexOf(HAB), [cmd |-> "Known", nodes |-> <<HAB>>]>>,
      <<<<108, 111, 111, 107, 117, 112, 32, 107, 101, 121, 61>> (* "lookup key=" *) \o Escape(<<97, 58, 98, 44, 99, 59, 100, 61, 101>> (* "a:b,c;d=e" *)), [cmd |-> "Lookup", key |-> <<97, 58, 98, 44, 99, 59, 100, 61, 101>> (* "a:b,c;d=e" *)]>> }

\* Texts that are no command: an unknown name, a missing parameter, bytes
\* after the parameters, a bad escape, a name without its space, nothing.
BadSubCmds == { <<98, 111, 103, 117, 115, 32>> (* "bogus " *), <<107, 110, 111, 119, 110, 32>> (* "known " *), <<104, 101, 97, 100, 115, 32, 120>> (* "heads x" *), <<108, 111, 111, 107, 117, 112, 32, 107, 101, 121, 61, 58, 122>> (* "lookup key=:z" *), <<104, 101, 108, 108, 111>> (* "hello" *), <<>> }

SubCmds == GoodSubCmds \cup { <<t, <<>>>> : t \in BadSubCmds }

MaxBatch == 2
RECURSIVE SeqsUpTo(_, _)
SeqsUpTo(S, n) ==
    IF n = 0 THEN { <<>> }
    ELSE LET shorter == SeqsUpTo(S, n - 1)
         IN  shorter \cup { Append(q, e) : q \in { r \in shorter : Len(r) = n - 1 }, e \in S }

BatchCases ==
    { [kind |-> "batch",
       enc |-> BatchEnvelope([i \in 1..Len(q) |-> q[i][1]]),
       cmds |-> [i \in 1..Len(q) |-> q[i][1]],
       valid |-> \A i \in 1..Len(q) : q[i] \in GoodSubCmds,
       req |-> [i \in 1..Len(q) |-> q[i][2]],
       raw |-> <<>>] : q \in SeqsUpTo(SubCmds, MaxBatch) \ { <<>> } }

\* Buffers that no command matches, with the text the error must carry.
JunkCases ==
    { <<<<98, 111, 103, 117, 115, 10>> (* "bogus\n" *), <<98, 111, 103, 117, 115, 10>> (* "bogus\n" *)>>,
      <<<<10>> (* "\n" *), <<10>> (* "\n" *)>>,
      <<<<104, 101, 97, 100, 115, 32, 120>> (* "heads x" *), <<104, 101, 97, 100, 115, 32, 120>> (* "heads x" *)>>,
      <<<<108, 111, 111, 107, 117, 112, 10, 107, 101, 121, 32, 120, 10>> (* "lookup\nkey x\n" *), <<108, 111, 111, 107, 117, 112, 10, 107, 101, 121, 32, 120, 10>> (* "lookup\nkey x\n" *)>>,
      <<<<108, 111, 111, 107, 117, 112, 10, 107, 101, 121, 32, 50, 10, 97, 255, 114, 101, 115, 116>> (* "lookup\nkey 2\na\xffrest" *), <<108, 111, 111, 107, 117, 112, 10, 107, 101, 121, 32, 50, 10, 97, 239, 191, 189, 114, 101, 115, 116>> (* "lookup\nkey 2\na\xef\xbf\xbdrest" *)>>,
      <<<<108, 111, 111, 107, 117, 112, 10, 107, 101, 121, 115, 32, 49, 10, 97>> (* "lookup\nkeys 1\na" *), <<108, 111, 111, 107, 117, 112, 10, 107, 101, 121, 115, 32, 49, 10, 97>> (* "lookup\nkeys 1\na" *)>>,
      <<<<107, 110, 111, 119, 110, 10, 42, 32, 48, 10, 110, 111, 100, 101, 115, 32, 51, 10, 97, 98, 99>> (* "known\n* 0\nnodes 3\nabc" *), <<107, 110, 111, 119, 110, 10, 42, 32, 48, 10, 110, 111, 100, 101, 115, 32, 51, 10, 97, 98, 99>> (* "known\n* 0\nnodes 3\nabc" *)>>,
      <<<<107, 110, 111, 119, 110, 10, 42, 32, 48, 10, 110, 111, 100, 101, 115, 32, 52, 49, 10>> (* "known\n* 0\nnodes 41\n" *) \o HexOf(H1) \o <<120>> (* "x" *), <<107, 110, 111, 119, 110, 10, 42, 32, 48, 10, 110, 111, 100, 101, 115, 32, 52, 49, 10>> (* "known\n* 0\nnodes 41\n" *) \o HexOf(H1) \o <<120>> (* "x" *)>>,
      <<<<103, 101, 116, 98, 117, 110, 100, 108, 101, 10, 42, 32, 49, 10, 112, 104, 97, 115, 101, 115, 32, 50, 10, 49, 120>> (* "getbundle\n* 1\nphases 2\n1x" *), <<103, 101, 116, 98, 117, 110, 100, 108, 101, 10, 42, 32, 49, 10, 112, 104, 97, 115, 101, 115, 32, 50, 10, 49, 120>> (* "getbundle\n* 1\nphases 2\n1x" *)>>,
      <<<<103, 101, 116, 116, 114, 101, 101, 112, 97, 99, 107, 10, 42, 32, 49, 10, 100, 101, 112, 116, 104, 32, 50, 10, 49, 120>> (* "gettreepack\n* 1\ndepth 2\n1x" *), <<103, 101, 116, 116, 114, 101, 101, 112, 97, 99, 107, 10, 42, 32, 49, 10, 100, 101, 112, 116, 104, 32, 50, 10, 49, 120>> (* "gettreepack\n* 1\ndepth 2\n1x" *)>>,
      <<<<98, 101, 116, 119, 101, 101, 110, 10, 112, 97, 105, 114, 115, 32, 49, 10, 120>> (* "between\npairs 1\nx" *), <<98, 101, 116, 119, 101, 101, 110, 10, 112, 97, 105, 114, 115, 32, 49, 10, 120>> (* "between\npairs 1\nx" *)>>,
      <<<<117, 110, 98, 117, 110, 100, 108, 101, 10, 104, 101, 97, 100, 115, 32, 48, 10>> (* "unbundle\nheads 0\n" *), <<117, 110, 98, 117, 110, 100, 108, 101, 10, 104, 101, 97, 100, 115, 32, 48, 10>> (* "unbundle\nheads 0\n" *)>>,
      <<<<98, 97, 116, 99, 104, 10, 42, 32, 48, 10, 99, 109, 100, 115, 32, 48, 10>> (* "batch\n* 0\ncmds 0\n" *), <<98, 97, 116, 99, 104, 10, 42, 32, 48, 10, 99, 109, 100, 115, 32, 48, 10>> (* "batch\n* 0\ncmds 0\n" *)>>,
      <<<<98, 97, 116, 99, 104, 10, 42, 32, 48, 10, 104, 101, 97, 100, 115, 32, 48, 10>> (* "batch\n* 0\nheads 0\n" *), <<98, 97, 116, 99, 104, 10, 42, 32, 48, 10, 104, 101, 97, 100, 115, 32, 48, 10>> (* "batch\n* 0\nheads 0\n" *)>> }

\* What the client sends: kind, the encoding, whether it is a valid encoding
\* and of which request, the commands of a batch, the text of the error.
Cases ==
    { [kind |-> "single", enc |-> c[1], cmds |-> <<>>, valid |-> TRUE,
       req |-> c[2], raw |-> <<>>] : c \in SingleCases }
    \cup BatchCases
    \cup { [kind |-> "junk", enc |-> c[1], cmds |-> <<>>, valid |-> FALSE,
            req |-> <<>>, raw |-> c[2]] : c \in JunkCases }

\* The request a valid case encodes.
RequestOf(c) == IF c.kind = "batch" THEN Batch(c.req) ELSE Single(c.req)

\* Bytes the peer may send after the request, one word at a time.
TrailWords == { <<101>> (* "e" *), <<10>> (* "\n" *), <<53>> (* "5" *), <<104, 101, 97, 100, 115, 10>> (* "heads\n" *) }
MaxTrail == 1

(***************************************************************************)
(* The connection: the peer's bytes arrive in pieces of any size, are      *)
(* appended to the buffer, and parse_request is called on the buffer.      *)
(***************************************************************************)
VARIABLES
    sent,       \* what the peer sends (an element of Cases)
    wire,       \* the bytes of sent.enc not delivered yet
    trail,      \* how many words were delivered after sent.enc
    buf,        \* the buffer parse_request works on
    last,       \* what the latest call of parse_request returned, NoCall before it
    callbuf,    \* the buffer as that call found it
    p_items, p_tail, p_count,       \* params: the input's parameters, what follows them, count
    p_inp, p_have, p_ret, p_status, \* params: inp, have, ret; "loop" or the result's kind
    v_kv, v_call, v_out,            \* parseval*: kv, the call made, what it returned
    k_fn, k_in, k_out,              \* a primitive called on its own: which, its input, its result
    e_in,       \* validate_all_submodule_expansions: the commit, the dependencies, the mover
    e_todo,     \* the submodules the fold has not come to yet
    e_cur,      \* the submodule being validated, if any
    e_log,      \* the validations that have ended, in order, with their results
    e_out,      \* the result of validate_all_submodule_expansions, "running" before it
    f_queue,    \* step 6 of a tree diff: entries_to_validate, in order
    f_next,     \* how many of them buffer_unordered has started
    f_flight,   \* the recursive diffs in flight, as a bag of entries
    f_done,     \* how many recursive diffs have returned Ok
    f_out,      \* what step 6 returned, "running" before it
    c_call,     \* chunk.rs: the call made, with its arguments and the input chunks
    c_chunks,   \* what the call returned: Inline, Chunked, a bare ChunkStream
    c_pos,      \* how many input chunks have been read
    c_observed, \* observed_size
    c_buff,     \* buff, of the ChunkStream or of the fold
    c_out,      \* the chunks the stream has emitted, in order
    c_state,    \* where the consumer of the stream or of the future stands
    \* validation.rs, one tree diff step by step
    d_in,       \* the two trees of the diff, the repo and its dependencies
    d_stage,    \* "idle", "called", "fold", "recurse" or "returned"
    d_data,     \* the EntryValidationData of the fold
    d_dirs,     \* the expansion's directories the fold has still to take
    d_trace,    \* the steps the diff has taken after the split
    d_out       \* what the diff returned

connVars == <<sent, wire, trail, buf, last, callbuf>>
paramsVars == <<p_items, p_tail, p_count, p_inp, p_have, p_ret, p_status>>
valVars == <<v_kv, v_call, v_out>>
kernelVars == <<k_fn, k_in, k_out>>
expVars == <<e_in, e_todo, e_cur, e_log, e_out>>
fanVars == <<f_queue, f_next, f_flight, f_done, f_out>>
chunkVars == <<c_call, c_chunks, c_pos, c_observed, c_buff, c_out, c_state>>
diffVars == <<d_in, d_stage, d_data, d_dirs, d_trace, d_out>>
laterVars == <<diffVars>>
restVars == <<fanVars, chunkVars, laterVars>>
vars == <<connVars, paramsVars, valVars, kernelVars, expVars, restVars>>

NoCall == [kind |-> "no call", val |-> <<>>]

ConnIdle ==
    /\ sent = [kind |-> "none", enc |-> <<>>, cmds |-> <<>>, valid |-> FALSE,
               req |-> <<>>, raw |-> <<>>]
    /\ wire = <<>> /\ trail = 0 /\ buf = <<>> /\ last = NoCall /\ callbuf = <<>>
ParamsIdle ==
    /\ p_items = <<>> /\ p_tail = <<>> /\ p_count = 0
    /\ p_inp = <<>> /\ p_have = 0 /\ p_ret = EmptyMap /\ p_status = "idle"
ValIdle ==
    /\ v_kv = EmptyMap /\ v_call = <<>> /\ v_out = <<>>
KernelIdle ==
    /\ k_fn = "none" /\ k_in = <<>> /\ k_out = <<>>
ExpIdle ==
    /\ e_in = <<>> /\ e_todo = {} /\ e_cur = None /\ e_log = <<>>
    /\ e_out = [outcome |-> "idle", err |-> "", val |-> <<>>]

FanIdle ==
    /\ f_queue = <<>> /\ f_next = 0 /\ f_flight = EmptyBag /\ f_done = 0
    /\ f_out = [outcome |-> "idle", err |-> "", val |-> <<>>]
ChunkIdle ==
    /\ c_call = [fn |-> "none"] /\ c_chunks = [kind |-> "none"] /\ c_pos = 0
    /\ c_observed = 0 /\ c_buff = <<>> /\ c_out = <<>> /\ c_state = [kind |-> "idle"]
DiffIdle ==
    /\ d_in = << >> /\ d_stage = "idle" /\ d_data = << >> /\ d_dirs = << >>
    /\ d_trace = << >> /\ d_out = [outcome |-> "idle", err |-> "", val |-> << >>]
LaterIdle == DiffIdle
RestIdle == FanIdle /\ ChunkIdle /\ LaterIdle

Init ==
    /\ sent \in Cases
    /\ wire = sent.enc
    /\ trail = 0
    /\ buf = <<>>
    /\ last = NoCall
    /\ callbuf = <<>>
    /\ ParamsIdle /\ ValIdle /\ KernelIdle /\ ExpIdle /\ RestIdle

\* The next n bytes of the request arrive.
Receive(n) ==
    /\ n \in 1..Len(wire)
    /\ buf' = buf \o Take(wire, n)
    /\ wire' = Drop(wire, n)
    /\ last' = NoCall
    /\ callbuf' = <<>>
    /\ UNCHANGED <<sent, trail, paramsVars, valVars, kernelVars, expVars, restVars>>

\* The request is through; the peer sends something more.
ReceiveMore(w) ==
    /\ wire = <<>>
    /\ trail < MaxTrail
    /\ buf' = buf \o w
    /\ trail' = trail + 1
    /\ last' = NoCall
    /\ callbuf' = <<>>
    /\ UNCHANGED <<sent, wire, paramsVars, valVars, kernelVars, expVars, restVars>>

\* parse_request(&mut buf)
ParseRequest ==
    /\ LET r == parse_request(buf)
       IN  /\ last' = r.result
           /\ buf' = r.buf
    /\ callbuf' = buf
    /\ UNCHANGED <<sent, wire, trail, paramsVars, valVars, kernelVars, expVars, restVars>>

Next ==
    \/ \E n \in 1..Len(wire) : Receive(n)
    \/ \E w \in TrailWords : ReceiveMore(w)
    \/ ParseRequest

Spec == Init /\ [][Next]_vars

(***************************************************************************)
(* Properties of parse_request on the connection.                          *)
(***************************************************************************)
Called == last.kind # "no call"
IsPrefix(p, s) == Len(p) <= Len(s) /\ p = Take(s, Len(p))
IsProperPrefix(p, s) == Len(p) < Len(s) /\ p = Take(s, Len(p))

\* C1: on a buffer holding a proper prefix of a valid encoding, parse_request
\* returns Ok(None) and leaves the buffer as it was.
C1_PrefixIsIncomplete ==
    (Called /\ sent.valid /\ IsProperPrefix(callbuf, sent.enc))
        => (last.kind = "Ok(None)" /\ buf = callbuf)

C1_Witness ==
    /\ sent.valid /\ callbuf # <<>> /\ IsProperPrefix(callbuf, sent.enc)
    /\ last.kind = "Ok(None)" /\ buf = callbuf

\* C2: on a buffer holding exactly a valid encoding of a request r,
\* parse_request returns Ok(Some(r)) and leaves the buffer empty.
C2_CompleteParses ==
    (Called /\ sent.valid /\ callbuf = sent.enc)
        => (last = OkSome(RequestOf(sent)) /\ buf = <<>>)

C2_Witness ==
    /\ sent.valid /\ callbuf = sent.enc
    /\ last = OkSome(RequestOf(sent)) /\ buf = <<>>

\* C3: on a buffer holding a valid encoding followed by any bytes T,
\* parse_request returns the request it returns on the encoding alone and
\* leaves exactly T in the buffer.
C3_TrailingBytesStay ==
    (Called /\ sent.valid /\ IsPrefix(sent.enc, callbuf))
        => /\ last = OkSome(RequestOf(sent))
           /\ last = parse_request(sent.enc).result
           /\ buf = Drop(callbuf, Len(sent.enc))

C3_Witness ==
    /\ sent.valid /\ IsProperPrefix(sent.enc, callbuf)
    /\ last = OkSome(RequestOf(sent))
    /\ buf = Drop(callbuf, Len(sent.enc)) /\ buf # <<>>

\* C4: when the buffer is a hard grammar error (no alternative matches, and
\* none asks for more bytes), parse_request returns Err(CommandParse(s)), s
\* being the lossy UTF-8 rendering of the whole buffer.
C4_HardErrorCarriesBuffer ==
    /\ (Called /\ parse_batchrequest(callbuf).tag = "Error"
               /\ parse_singlerequest(callbuf).tag = "Error")
           => last = ErrCommandParse(from_utf8_lossy(callbuf))
    /\ (Called /\ sent.kind = "junk" /\ callbuf = sent.enc)
           => last = ErrCommandParse(sent.raw)

C4_Witness ==
    /\ sent.kind = "junk" /\ callbuf = sent.enc /\ sent.raw # sent.enc
    /\ last = ErrCommandParse(sent.raw)

\* One command of a batch on its own: "name args" becomes name\nargs and is
\* parsed by parse_with_params with the batch parameter syntax.
Standalone(k) ==
    LET I == {i \in 1..Len(k) : k[i] = 32}
    IN  IF I = {} THEN Error("no name")
        ELSE LET sp == MinOf(I)
             IN  complete(parse_with_params(Take(k, sp - 1) \o <<10>> (* "\n" *) \o Drop(k, sp),
                                            "batch_params"))
StandaloneOk(k) == Standalone(k).tag = "Done" /\ Standalone(k).rest = <<>>

\* C5: batch\n* 0\ncmds <len>\n<k1;...;kn> parses to Batch([r1, ..., rn]) if
\* and only if each ki parses on its own to ri, consuming all of ki.
C5_BatchIffEachParses ==
    (Called /\ sent.kind = "batch" /\ callbuf = sent.enc)
        => IF \A i \in 1..Len(sent.cmds) : StandaloneOk(sent.cmds[i])
           THEN last = OkSome(Batch([i \in 1..Len(sent.cmds) |-> Standalone(sent.cmds[i]).val]))
           ELSE last.kind # "Ok(Some)"

C5_Witness ==
    /\ sent.kind = "batch" /\ callbuf = sent.enc /\ Len(sent.cmds) > 1
    /\ \A i \in 1..Len(sent.cmds) : StandaloneOk(sent.cmds[i])
    /\ last.kind = "Ok(Some)" /\ last.val.kind = "Batch" /\ Len(last.val.val) = Len(sent.cmds)

\* C6: a batch with a command that fails to parse is an error as a whole:
\* parse_request returns Err, never Ok(None) and never a Batch of the others.
C6_FailedCommandFailsBatch ==
    (Called /\ sent.kind = "batch" /\ ~sent.valid /\ IsPrefix(sent.enc, callbuf))
        => last.kind = "Err(CommandParse)"

C6_Witness ==
    /\ sent.kind = "batch" /\ ~sent.valid /\ callbuf = sent.enc
    /\ \E i \in 1..Len(sent.cmds) : sent.cmds[i] \notin BadSubCmds
    /\ last.kind = "Err(CommandParse)"

(***************************************************************************)
(* params(inp, count), one turn of its loop at a time.                     *)
(***************************************************************************)
\* A top-level parameter of the input: whether it is a "*", the named
\* parameters it consists of, in order, and its bytes.
NamedParam(key, val) == [star |-> FALSE, kvs |-> << <<key, val>> >>, enc |-> KV(key, val)]
StarParam(kvs) ==
    [star |-> TRUE, kvs |-> kvs, enc |-> Star([i \in 1..Len(kvs) |-> KV(kvs[i][1], kvs[i][2])])]
\* A "*" of two parameters, the first of them a "*" of one.
NestedStarParam ==
    [star |-> TRUE, kvs |-> << <<<<97>> (* "a" *), <<122>> (* "z" *)>>, <<<<98, 98>> (* "bb" *), <<>>>> >>,
     enc |-> <<42, 32, 50, 10, 42, 32, 49, 10, 97, 32, 49, 10, 122, 98, 98, 32, 48, 10>> (* "* 2\n* 1\na 1\nzbb 0\n" *)]

ParamChoices ==
    { NamedParam(<<97>> (* "a" *), <<120>> (* "x" *)), NamedParam(<<97>> (* "a" *), <<>>), NamedParam(<<98, 98>> (* "bb" *), <<121, 10>> (* "y\n" *)),
      StarParam(<<>>), StarParam(<< <<<<97>> (* "a" *), <<49>> (* "1" *)>> >>),
      StarParam(<< <<<<98, 98>> (* "bb" *), <<>>>>, <<<<97>> (* "a" *), <<50>> (* "2" *)>>, <<<<98, 98>> (* "bb" *), <<51, 32>> (* "3 " *)>> >>),
      NestedStarParam }

\* What may follow the parameters: the start of one more, cut short ...
TruncatedTails ==
    { <<>>, <<102, 111>> (* "fo" *), <<102, 111, 111, 32>> (* "foo " *), <<102, 111, 111, 32, 49>> (* "foo 1" *), <<102, 111, 111, 32, 51, 10, 97, 98>> (* "foo 3\nab" *), <<42>> (* "*" *), <<42, 32, 50>> (* "* 2" *), <<42, 32, 49, 10>> (* "* 1\n" *), <<42, 32, 49, 10, 102, 111, 111, 32, 49, 10>> (* "* 1\nfoo 1\n" *) }
\* ... or bytes that are no parameter.
MalformedTails == { <<10>> (* "\n" *), <<102, 111, 111, 10>> (* "foo\n" *), <<102, 111, 111, 32, 120>> (* "foo x" *), <<102, 111, 111, 32, 49, 120>> (* "foo 1x" *), <<42, 120>> (* "*x" *), <<42, 32, 120, 10>> (* "* x\n" *), <<32, 102, 111, 111, 32, 49, 10, 97>> (* " foo 1\na" *), <<42, 32, 49, 10, 10>> (* "* 1\n\n" *) }

MaxParams == 2

EncodeParams(items) == Concat([i \in 1..Len(items) |-> items[i].enc])
ParamsInput == EncodeParams(p_items) \o p_tail

InitParams ==
    /\ p_items \in SeqsUpTo(ParamChoices, MaxParams)
    /\ p_tail \in TruncatedTails \cup MalformedTails
    /\ p_count \in 0..(MaxParams + 1)
    /\ p_inp = ParamsInput
    /\ p_have = 0
    /\ p_ret = EmptyMap
    /\ p_status = "loop"
    /\ ConnIdle /\ ValIdle /\ KernelIdle /\ ExpIdle /\ RestIdle

\* One turn of `while have < count`: the alternative, then the match on res.
ParamsTurn ==
    /\ p_status = "loop"
    /\ ParamsMore(p_have, p_count)
    /\ LET res == params_alt(p_inp)
       IN  IF res.tag = "Done"
           THEN /\ p_have' = p_have + res.val.adds
                /\ p_ret' = MapInsertAll(p_ret, res.val.kv)
                /\ p_inp' = res.rest
                /\ UNCHANGED p_status
           ELSE /\ p_status' = res.tag
                /\ UNCHANGED <<p_inp, p_have, p_ret>>
    /\ UNCHANGED <<p_items, p_tail, p_count, connVars, valVars, kernelVars, expVars, restVars>>

\* The loop is left: IResult::Done(inp, ret).
ParamsReturn ==
    /\ p_status = "loop"
    /\ ~ParamsMore(p_have, p_count)
    /\ p_status' = "Done"
    /\ UNCHANGED <<p_items, p_tail, p_count, p_inp, p_have, p_ret, connVars, valVars, kernelVars, expVars, restVars>>

NextParams == ParamsTurn \/ ParamsReturn

SpecParams == InitParams /\ [][NextParams]_vars

\* The top-level parameters taken so far, if each turn took one.
TakenParams == SubSeq(p_items, 1, IF p_have < Len(p_items) THEN p_have ELSE Len(p_items))
\* A sequence of sequences, flattened.
RECURSIVE Flatten(_)
Flatten(ss) == IF ss = <<>> THEN <<>> ELSE Head(ss) \o Flatten(Tail(ss))
\* The named parameters among them, those of each "*" included, in the order
\* of the input.
TakenPairs == Flatten([i \in 1..Len(TakenParams) |-> TakenParams[i].kvs])
\* The map in which each key has the value of its last occurrence in ps.
LastWins(ps) ==
    [k \in {ps[i][1] : i \in 1..Len(ps)} |->
        LET j == CHOOSE j \in 1..Len(ps) :
                    /\ ps[j][1] = k
                    /\ \A l \in (j + 1)..Len(ps) : ps[l][1] # k
        IN  ps[j][2]]

\* C7: a turn of the loop that takes a "*" block adds exactly 1 to have,
\* whatever the number K >= 0 of parameters the block expands to, and takes
\* the whole block; a turn that takes a named parameter adds exactly 1.
C7_EachParamCountsOnce ==
    [][ (p_status = "loop" /\ p_inp' # p_inp)
            => /\ p_have < Len(p_items)
               /\ p_have' = p_have + 1
               /\ p_inp' = Drop(p_inp, Len(p_items[p_have + 1].enc))
               /\ DOMAIN p_ret' = DOMAIN p_ret \cup
                       {p_items[p_have + 1].kvs[i][1] : i \in 1..Len(p_items[p_have + 1].kvs)} ]_vars

C7_Witness ==
    /\ p_have = 2 /\ Len(p_items) = 2
    /\ p_items[1].star /\ Len(p_items[1].kvs) = 3
    /\ ~p_items[2].star
    /\ p_inp = p_tail

ParamsTerminal == p_status \in {"Done", "Incomplete", "Error"}

\* C8: params(N) is Done only after exactly N top-level parameters, having
\* consumed nothing past the N-th; it is Incomplete when fewer than N are
\* there, and an Error when the next parameter is malformed.
C8_ExactlyCountParams ==
    ParamsTerminal =>
        /\ p_status = (IF Len(p_items) >= p_count THEN "Done"
                       ELSE IF p_tail \in TruncatedTails THEN "Incomplete" ELSE "Error")
        /\ p_status = "Done" =>
               /\ p_have = p_count
               /\ p_inp = EncodeParams(SubSeq(p_items, p_count + 1, Len(p_items))) \o p_tail
        /\ LET r == params(ParamsInput, p_count)
           IN  /\ r.tag = p_status
               /\ r.tag = "Done" => (r.rest = p_inp /\ r.val = p_ret)

C8_Witness ==
    /\ p_status = "Done" /\ p_count = 2 /\ Len(p_items) = 2
    /\ p_items[1].star /\ Len(p_items[1].kvs) > 0
    /\ p_inp = p_tail /\ p_tail # <<>>

\* C9: a key that occurs more than once, among the top-level parameters and
\* those nested in "*" blocks, has the value of its last occurrence.
C9_LastOccurrenceWins == p_ret = LastWins(TakenPairs)

C9_Witness ==
    /\ p_status = "Done" /\ p_have = 2 /\ Len(p_items) = 2
    /\ p_items[1].star /\ ~p_items[2].star
    /\ \E i \in 1..Len(p_items[1].kvs) :
          /\ p_items[1].kvs[i][1] = p_items[2].kvs[1][1]
          /\ p_items[1].kvs[i][2] # p_items[2].kvs[1][2]
    /\ p_ret[p_items[2].kvs[1][1]] = p_items[2].kvs[1][2]

(***************************************************************************)
(* parseval, parseval_default and parseval_option on the parameters of a   *)
(* command, and the command's constructor on them.                         *)
(***************************************************************************)
\* The fields of the constructors: which function reads which key with
\* which parser.
FieldTable ==
    UNION { { [req |-> CommandTable[c].req, key |-> f.key, fn |-> f.fn, parser |-> f.parser] :
              f \in SeqToSet(Fields(CommandTable[c].req)) } : c \in DOMAIN CommandTable }
           \cup { [req |-> "Batch", key |-> f.key, fn |-> f.fn, parser |-> f.parser] :
                  f \in SeqToSet(Fields("Batch")) }

\* Parameters with which the constructor of req succeeds.
BaseKv(req) ==
    CASE req = "Between" -> MapOnce(<<112, 97, 105, 114, 115>> (* "pairs" *), <<>>)
      [] req = "Debugwireargs" -> MapFromPairs(<< <<<<111, 110, 101>> (* "one" *), <<79, 78, 69>> (* "ONE" *)>>, <<<<116, 119, 111>> (* "two" *), <<84, 87, 79>> (* "TWO" *)>> >>)
      [] req = "Getbundle" -> EmptyMap
      [] req = "Listkeys" -> MapOnce(<<110, 97, 109, 101, 115, 112, 97, 99, 101>> (* "namespace" *), <<98, 111, 111, 107, 109, 97, 114, 107, 115>> (* "bookmarks" *))
      [] req = "Lookup" -> MapOnce(<<107, 101, 121>> (* "key" *), <<107>> (* "k" *))
      [] req = "Known" -> MapOnce(<<110, 111, 100, 101, 115>> (* "nodes" *), <<>>)
      [] req = "Unbundle" -> MapOnce(<<104, 101, 97, 100, 115>> (* "heads" *), <<97, 98>> (* "ab" *))
      [] req = "Gettreepack" ->
           MapFromPairs(<< <<<<114, 111, 111, 116, 100, 105, 114>> (* "rootdir" *), <<>>>>, <<<<109, 102, 110, 111, 100, 101, 115>> (* "mfnodes" *), <<>>>>,
                           <<<<98, 97, 115, 101, 109, 102, 110, 111, 100, 101, 115>> (* "basemfnodes" *), <<>>>>, <<<<100, 105, 114, 101, 99, 116, 111, 114, 105, 101, 115>> (* "directories" *), <<>>>> >>)
      [] req = "Batch" -> MapOnce(<<99, 109, 100, 115>> (* "cmds" *), <<104, 101, 108, 108, 111, 32>> (* "hello " *))

\* Values a parameter may arrive with.
ParamValues ==
    { <<>>, <<49>> (* "1" *), <<49, 120>> (* "1x" *), <<49, 50, 32>> (* "12 " *), <<79, 78, 69>> (* "ONE" *), <<79, 78, 69, 32, 116, 119, 111>> (* "ONE two" *), <<97, 44, 98>> (* "a,b" *), <<97, 98, 32, 99, 100>> (* "ab cd" *), <<97, 98, 32, 99, 100, 33>> (* "ab cd!" *),
      <<99, 97, 102, 255>> (* "caf\xff" *), <<104, 101, 108, 108, 111, 32>> (* "hello " *), <<104, 101, 108, 108, 111, 32, 59>> (* "hello ;" *), <<37, 52>> (* "%4" *), <<58, 111, 44, 58, 115>> (* ":o,:s" *), <<58, 122>> (* ":z" *),
      HexOf(H1), HexOf(H1) \o <<101, 120, 116, 114, 97>> (* "extra" *), HexOf(H1) \o <<32>> (* " " *),
      HexOf(H1) \o <<32>> (* " " *) \o HexOf(HAB),
      HexOf(H1) \o <<45>> (* "-" *) \o HexOf(H2), HexOf(H1) \o <<45>> (* "-" *) \o HexOf(H2) \o <<120>> (* "x" *) }

InitParseval ==
    /\ \E f \in FieldTable :
          /\ v_call = [fn |-> "none", req |-> f.req, key |-> f.key, parser |-> f.parser]
          /\ \/ \E v \in ParamValues : v_kv = MapInsertAll(BaseKv(f.req), MapOnce(f.key, v))
             \/ v_kv = [k \in DOMAIN BaseKv(f.req) \ {f.key} |-> BaseKv(f.req)[k]]
    /\ v_out = <<>>
    /\ ConnIdle /\ ParamsIdle /\ KernelIdle /\ ExpIdle /\ RestIdle

\* parseval(&kv, key, parser)
Parseval ==
    /\ v_out' = parseval(v_kv, v_call.key, v_call.parser)
    /\ v_call' = [v_call EXCEPT !.fn = "parseval"]
    /\ UNCHANGED <<v_kv, connVars, paramsVars, kernelVars, expVars, restVars>>

\* parseval_default(&kv, key, parser)
ParsevalDefault ==
    /\ v_out' = parseval_default(v_kv, v_call.key, v_call.parser, DefaultOf(v_call.parser))
    /\ v_call' = [v_call EXCEPT !.fn = "parseval_default"]
    /\ UNCHANGED <<v_kv, connVars, paramsVars, kernelVars, expVars, restVars>>

\* parseval_option(&kv, key, parser)
ParsevalOption ==
    /\ v_out' = parseval_option(v_kv, v_call.key, v_call.parser)
    /\ v_call' = [v_call EXCEPT !.fn = "parseval_option"]
    /\ UNCHANGED <<v_kv, connVars, paramsVars, kernelVars, expVars, restVars>>

\* func(kv) of parse_command: the constructor of the command.
Construct ==
    /\ v_out' = func(v_call.req, v_kv)
    /\ v_call' = [v_call EXCEPT !.fn = "func"]
    /\ UNCHANGED <<v_kv, connVars, paramsVars, kernelVars, expVars, restVars>>

NextParseval == Parseval \/ ParsevalDefault \/ ParsevalOption \/ Construct

SpecParseval == InitParseval /\ [][NextParseval]_vars

\* The parser's result on the value of the key, the key being there.
ValuePresent == v_call.key \in DOMAIN v_kv
ValueResult == ApplyParser(v_call.parser, v_kv[v_call.key])
ValueLeftOver == ValuePresent /\ ValueResult.tag = "Done" /\ ValueResult.rest # <<>>

\* C10: a value whose parser stops before its end makes parseval,
\* parseval_default and parseval_option fail alike, and with them the
\* command; a value is taken only when its parser consumed all of it.
C10_TrailingBytesRejected ==
    v_call.fn # "none" =>
        /\ ValueLeftOver => ~v_out.ok
        /\ (v_call.fn # "func" /\ ValuePresent /\ v_out.ok)
               => (ValueResult.tag = "Done" /\ ValueResult.rest = <<>>)
        /\ (ValuePresent /\ v_call.parser = "hashlist"
                /\ v_kv[v_call.key] = HexOf(H1) \o <<101, 120, 116, 114, 97>> (* "extra" *)) => ~v_out.ok

C10_Witness ==
    /\ v_call.fn = "func" /\ v_call.req = "Gettreepack" /\ v_call.key = <<100, 101, 112, 116, 104>> (* "depth" *)
    /\ ValueLeftOver
    /\ ~v_out.ok

(***************************************************************************)
(* What a caller learns from a rejected command.                           *)
(***************************************************************************)
\* The error, if any, with which the constructor of the c-th command rejects
\* the parameters of buffer b read as a single request: its kind and its key.
RejectionOf(b, c) ==
    Bind(command_params(b, CommandTable[c].name, "params", CommandTable[c].nargs), LAMBDA p :
      IF p.tag # "Done" THEN {}
      ELSE Bind(func(CommandTable[c].req, p.val), LAMBDA t :
             IF t.ok THEN {} ELSE { <<t.err, t.key>> }))

Rejections(b) == UNION { RejectionOf(b, c) : c \in DOMAIN CommandTable }

\* An error of parse_request that names the kind of failure and the key.
ErrParam(e) == [kind |-> "Err(Param)", val |-> e]

\* C11: when the constructor of a command rejects its parameters, the error
\* parse_request returns names the kind of failure and the parameter key.
C11_ConstructorErrorSurfaced ==
    Called => \A e \in Rejections(callbuf) : last = ErrParam(e)

\* What the code does instead: the rejection reaches the caller as the
\* CommandParse error of a buffer no command matches, kind and key dropped.
C11_RejectionIsGeneric ==
    (Called /\ Rejections(callbuf) # {})
        => last = ErrCommandParse(from_utf8_lossy(callbuf))

(***************************************************************************)
(* The primitives of the kernel called on their own.                       *)
(***************************************************************************)
\* The bytes the inputs are made of: digits, a letter, a space, a newline.
KernelBytes == { 48, 49, 57, 97, 32, 10 }
MaxInput == 3

\* The inputs: every byte string over KernelBytes of at most MaxInput bytes.
KernelInputs == SeqsUpTo(KernelBytes, MaxInput)

InitKernel ==
    /\ k_fn = "none"
    /\ k_in \in KernelInputs
    /\ k_out = <<>>
    /\ ConnIdle /\ ParamsIdle /\ ValIdle /\ ExpIdle /\ RestIdle

\* integer(k_in)
CallInteger ==
    /\ k_fn = "none"
    /\ k_fn' = "integer"
    /\ k_out' = integer(k_in)
    /\ UNCHANGED <<k_in, connVars, paramsVars, valVars, expVars, restVars>>

NextKernel == CallInteger

SpecKernel == InitKernel /\ [][NextKernel]_vars

is_prefix_of(q, p) == Len(q) < Len(p) /\ SubSeq(p, 1, Len(q)) = q

\* remove_prefix_component: what is left of p below prefix, if anything.
remove_prefix_component(p, prefix) ==
    IF is_prefix_of(prefix, p) THEN Some(SubSeq(p, Len(prefix) + 1, Len(p))) ELSE None

\* x_repo_submodule_metadata_file_basename: .<prefix>-<name>
x_repo_submodule_metadata_file_basename(name, prefix) == "." \o prefix \o "-" \o name

\* get_x_repo_submodule_metadata_file_path: the sibling of the expansion
\* that carries the metadata basename.
get_x_repo_submodule_metadata_file_path(path, prefix) ==
    SubSeq(path, 1, Len(path) - 1)
        \o << x_repo_submodule_metadata_file_basename(path[Len(path)], prefix) >>

\* The four kinds of FileChange.
Change(content) == [kind |-> "Change", content |-> content]
UntrackedChange(content) == [kind |-> "UntrackedChange", content |-> content]
Deletion == [kind |-> "Deletion", content |-> ""]
UntrackedDeletion == [kind |-> "UntrackedDeletion", content |-> ""]

\* FileChange::is_removed
is_removed(fc) == fc.kind \in { "Deletion", "UntrackedDeletion" }

\* A file of a tree: its content id and its FileType.
File(content, type) == [content |-> content, type |-> type]

\* The files below directory dir of the files fs, by their paths below dir:
\* the id of the tree at dir.
TreeAt(fs, dir) ==
    [ q \in { SubSeq(p, Len(dir) + 1, Len(p)) : p \in { p \in DOMAIN fs : is_prefix_of(dir, p) } }
        |-> fs[dir \o q] ]

\* The two kinds of FsnodeEntry: a file with its content id and type, a
\* directory with its tree id.
FileEntry(f) == [kind |-> "File", content |-> f.content, type |-> f.type, id |-> << >>]
DirectoryEntry(id) == [kind |-> "Directory", content |-> "", type |-> "", id |-> id]

\* Fsnode::into_subentries of the tree t: the pairs (name, entry).
into_subentries(t) ==
    { << p[1], IF << p[1] >> \in DOMAIN t THEN FileEntry(t[<< p[1] >>])
               ELSE DirectoryEntry(TreeAt(t, << p[1] >>)) >> : p \in DOMAIN t }

\* find_entry: what the files fs have at path.
find_entry(fs, path) ==
    IF path \in DOMAIN fs THEN [kind |-> "Leaf", id |-> << >>]
    ELSE IF \E p \in DOMAIN fs : is_prefix_of(path, p) THEN [kind |-> "Tree", id |-> TreeAt(fs, path)]
    ELSE [kind |-> "None", id |-> << >>]

(***************************************************************************)
(* The tree diff of an expansion against the tree of its submodule.        *)
(***************************************************************************)
\* The Result of a step of the validator: Ok(val), Err(anyhow!(err)), or a
\* panic of the task.
Valid(val) == [outcome |-> "Ok", val |-> val, err |-> ""]
Invalid(err) == [outcome |-> "Err", val |-> << >>, err |-> err]
Panicked(err) == [outcome |-> "Panic", val |-> << >>, err |-> err]

\* The "?" operator: the failure r, or what follows with the value of r.
Then(r, k(_)) == IF r.outcome = "Ok" THEN k(r.val) ELSE r

\* The git hash a blob holds, for the blobs that hold one: the metadata file
\* and the GitSubmodule file of the same commit are different blobs with the
\* same hash.
HashBlobs ==
    [ c \in { "meta-h1", "meta-h2", "meta-k1", "meta-k2", "gitsm-k1", "gitsm-k2" } |->
        CASE c = "meta-h1" -> "h1" [] c = "meta-h2" -> "h2"
          [] c \in { "meta-k1", "gitsm-k1" } -> "k1"
          [] OTHER -> "k2" ]

\* git_hash_from_submodule_metadata_file: the hash in the blob content_id,
\* which has to hold one.
git_hash_from_submodule_metadata_file(content_id) ==
    IF content_id \in DOMAIN HashBlobs THEN Valid(HashBlobs[content_id])
    ELSE Invalid("not a git hash")

\* get_git_hash_from_submodule_file: likewise for a GitSubmodule file.
get_git_hash_from_submodule_file(content_id) ==
    IF content_id \in DOMAIN HashBlobs THEN Valid(HashBlobs[content_id])
    ELSE Invalid("not a git hash")

\* The repos of the submodules, by name: the root tree of each commit, by
\* its git hash.  repoA holds a file, and at h2 also the
\* submodule s; repoS is the repo of s; repoB that of an unrelated submodule.
Repos ==
    [ repoA |-> [ h1 |-> (<< "f" >> :> File("c1", "Regular")),
              h2 |-> (<< "f" >> :> File("c1", "Regular"))
                       @@ (<< "s" >> :> File("gitsm-k1", "GitSubmodule")) ],
      repoS |-> [ k1 |-> (<< "f" >> :> File("c1", "Regular")),
              k2 |-> (<< "f" >> :> File("c2", "Regular")) ],
      repoB |-> [ h1 |-> (<< "f" >> :> File("c1", "Regular")) ] ]

\* root_fsnode_id_from_submodule_git_commit: the root tree of the commit of
\* repo that git_hash names, which has to exist.
root_fsnode_id_from_submodule_git_commit(repo, git_hash) ==
    IF git_hash \in DOMAIN Repos[repo] THEN Valid(Repos[repo][git_hash])
    ELSE Invalid("commit not found in submodule repo")

\* HashMap::remove
MapRemove(m, k) == [x \in DOMAIN m \ {k} |-> m[x]]

\* The submodule dependencies below the directory name: filter_map of
\* remove_prefix_component over the dependencies.
DepsBelow(deps, prefix) ==
    [ q \in { remove_prefix_component(p, prefix).val :
                p \in { p \in DOMAIN deps : is_prefix_of(prefix, p) } }
        |-> deps[prefix \o q] ]

\* EntriesToValidate
EntriesToValidate(deps, repo, expansion_fsnode_id, submodule_repo_fsnode_id) ==
    [rec_submodule_repo_deps |-> deps, submodule_repo |-> repo,
     expansion_fsnode_id |-> expansion_fsnode_id,
     submodule_repo_fsnode_id |-> submodule_repo_fsnode_id]

\* The entries of a set of (name, entry) pairs of the given kind, by name.
ByName(entries, kind) ==
    [ n \in { e[1] : e \in { e \in entries : e[2].kind = kind } } |->
        (CHOOSE e \in entries : e[1] = n /\ e[2].kind = kind)[2] ]

\* EntryValidationData
EntryValidationData(sm_dirs, sm_files, md_files, to_validate) ==
    [remaining_sm_dirs |-> sm_dirs, remaining_sm_files |-> sm_files,
     remaining_md_files |-> md_files, entries_to_validate |-> to_validate]

\* A split that lets an entry of the submodule through that the expansion
\* has no differing entry for.
split_entries_unmatched_ok(expansion_fsnode_id, submodule_fsnode_id) ==
    LET all_expansion_entries == into_subentries(expansion_fsnode_id)
        all_submodule_entries == into_subentries(submodule_fsnode_id)
        submodule_only_entries == all_submodule_entries \ all_expansion_entries
        expansion_only_entries == all_expansion_entries \ all_submodule_entries
        submodule_only_paths == { e[1] : e \in submodule_only_entries }
        should_contain_submodule_expansions ==
            { e \in expansion_only_entries : e[1] \in submodule_only_paths }
        should_be_metadata_files ==
            { e \in expansion_only_entries : e[1] \notin submodule_only_paths }
    IN  IF \E e \in should_be_metadata_files : e[2].kind = "Directory"
        THEN Invalid("Paths in expansion and not in submodules should be metadata files")
        ELSE IF \E e \in should_contain_submodule_expansions : e[2].kind = "File"
        THEN Invalid("Path present in submodule manifest can't be a file in expansion")
        ELSE Valid([data |-> EntryValidationData(
                                 ByName(submodule_only_entries, "Directory"),
                                 ByName(submodule_only_entries, "File"),
                                 ByName(should_be_metadata_files, "File"), << >>),
                    expansion_directories |->
                        ByName(should_contain_submodule_expansions, "Directory")])

\* A split that takes the files and the directories of each class and lets
\* the others be.
split_entries_unclassified(expansion_fsnode_id, submodule_fsnode_id) ==
    LET all_expansion_entries == into_subentries(expansion_fsnode_id)
        all_submodule_entries == into_subentries(submodule_fsnode_id)
        submodule_only_entries == all_submodule_entries \ all_expansion_entries
        expansion_only_entries == all_expansion_entries \ all_submodule_entries
        expansion_only_paths == { e[1] : e \in expansion_only_entries }
        submodule_only_paths == { e[1] : e \in submodule_only_entries }
        should_contain_submodule_expansions ==
            { e \in expansion_only_entries : e[1] \in submodule_only_paths }
        should_be_metadata_files ==
            { e \in expansion_only_entries : e[1] \notin submodule_only_paths }
    IN  IF \E e \in submodule_only_entries : e[1] \notin expansion_only_paths
        THEN Invalid("Path is in submodule manifest but not in expansion")
        ELSE Valid([data |-> EntryValidationData(
                                 ByName(submodule_only_entries, "Directory"),
                                 ByName(submodule_only_entries, "File"),
                                 ByName(should_be_metadata_files, "File"), << >>),
                    expansion_directories |->
                        ByName(should_contain_submodule_expansions, "Directory")])

\* Steps 1 to 3 of validate_working_copy_of_expansion_with_recursive_submodules:
\* the entries that differ, split into the submodule's directories and files,
\* the expansion's metadata files and the expansion's directories; an
\* error when an entry is where the split does not allow it.
split_entries(expansion_fsnode_id, submodule_fsnode_id) ==
    LET all_expansion_entries == into_subentries(expansion_fsnode_id)
        all_submodule_entries == into_subentries(submodule_fsnode_id)
        submodule_only_entries == all_submodule_entries \ all_expansion_entries
        expansion_only_entries == all_expansion_entries \ all_submodule_entries
        expansion_only_paths == { e[1] : e \in expansion_only_entries }
        submodule_only_paths == { e[1] : e \in submodule_only_entries }
        should_contain_submodule_expansions ==
            { e \in expansion_only_entries : e[1] \in submodule_only_paths }
        should_be_metadata_files ==
            { e \in expansion_only_entries : e[1] \notin submodule_only_paths }
    IN  IF \E e \in submodule_only_entries : e[1] \notin expansion_only_paths
        THEN Invalid("Path is in submodule manifest but not in expansion")
        ELSE IF \E e \in should_be_metadata_files : e[2].kind = "Directory"
        THEN Invalid("Paths in expansion and not in submodules should be metadata files")
        ELSE IF \E e \in should_contain_submodule_expansions : e[2].kind = "File"
        THEN Invalid("Path present in submodule manifest can't be a file in expansion")
        ELSE Valid([data |-> EntryValidationData(
                                 ByName(submodule_only_entries, "Directory"),
                                 ByName(submodule_only_entries, "File"),
                                 ByName(should_be_metadata_files, "File"), << >>),
                    expansion_directories |->
                        ByName(should_contain_submodule_expansions, "Directory")])

\* A comparison of the two hashes that lets every pair through.
hashes_unchecked(exp_metadata_git_hash, git_hash_from_sm_entry) ==
    Valid(exp_metadata_git_hash)

\* assert_eq!(exp_metadata_git_hash, git_hash_from_sm_entry, ..): the task
\* panics on different hashes.
assert_eq_hashes(exp_metadata_git_hash, git_hash_from_sm_entry) ==
    IF exp_metadata_git_hash = git_hash_from_sm_entry THEN Valid(exp_metadata_git_hash)
    ELSE Panicked("Hash from submodule metadata file doesn't match the one in git submodule file in submodule repo")

\* The part of validate_expansion_directory_against_submodule_manifest_entry
\* for a path that is a file of the submodule: the recursive submodule whose
\* expansion the directory has to be.
recursive_submodule_entry(prefix, adjusted_submodule_deps, data, exp_path, exp_dir_fsnode_id) ==
    IF exp_path \notin DOMAIN data.remaining_sm_files
    THEN Invalid("Path should be a GitSubmodule file in tha submodule's manifest")
    ELSE IF data.remaining_sm_files[exp_path].type # "GitSubmodule"
    THEN Invalid("Submodule entry for the same path has to be a submodule file")
    ELSE IF x_repo_submodule_metadata_file_basename(exp_path, prefix)
               \notin DOMAIN data.remaining_md_files
    THEN Invalid("Metadata file not found in path where expansion should be")
    ELSE
      Then(git_hash_from_submodule_metadata_file(
             data.remaining_md_files[x_repo_submodule_metadata_file_basename(exp_path, prefix)].content),
           LAMBDA exp_metadata_git_hash :
      Then(get_git_hash_from_submodule_file(data.remaining_sm_files[exp_path].content),
           LAMBDA git_hash_from_sm_entry :
      Then(assert_eq_hashes(exp_metadata_git_hash, git_hash_from_sm_entry),
           LAMBDA git_hash :
      IF << exp_path >> \notin DOMAIN adjusted_submodule_deps
      THEN Invalid("Recursive submodule not loaded")
      ELSE
      Then(root_fsnode_id_from_submodule_git_commit(adjusted_submodule_deps[<< exp_path >>], git_hash),
           LAMBDA rec_submodule_fsnode_id :
        Valid(EntryValidationData(
                data.remaining_sm_dirs,
                MapRemove(data.remaining_sm_files, exp_path),
                MapRemove(data.remaining_md_files,
                          x_repo_submodule_metadata_file_basename(exp_path, prefix)),
                Append(data.entries_to_validate,
                       EntriesToValidate(DepsBelow(adjusted_submodule_deps, << exp_path >>),
                                         adjusted_submodule_deps[<< exp_path >>],
                                         exp_dir_fsnode_id, rec_submodule_fsnode_id))))))))

\* A step of the fold that queues the directory under its own name, a tree
\* as deep as the one it was found in.
validate_expansion_directory_rerooted(prefix, submodule_repo, adjusted_submodule_deps, data, exp_path, exp_dir_fsnode_id) ==
    IF exp_path \in DOMAIN data.remaining_sm_dirs
    THEN Valid(EntryValidationData(
                 MapRemove(data.remaining_sm_dirs, exp_path),
                 data.remaining_sm_files, data.remaining_md_files,
                 Append(data.entries_to_validate,
                        EntriesToValidate(DepsBelow(adjusted_submodule_deps, << exp_path >>),
                                          submodule_repo,
                                          [ q \in { << exp_path >> \o p : p \in DOMAIN exp_dir_fsnode_id }
                                              |-> exp_dir_fsnode_id[Tail(q)] ],
                                          data.remaining_sm_dirs[exp_path].id))))
    ELSE recursive_submodule_entry(prefix, adjusted_submodule_deps, data, exp_path,
                                   exp_dir_fsnode_id)

\* A step of the fold that takes a directory of the submodule for matched
\* without queuing its diff.
validate_expansion_directory_unqueued(prefix, submodule_repo, adjusted_submodule_deps, data, exp_path, exp_dir_fsnode_id) ==
    IF exp_path \in DOMAIN data.remaining_sm_dirs
    THEN Valid(EntryValidationData(
                 MapRemove(data.remaining_sm_dirs, exp_path),
                 data.remaining_sm_files, data.remaining_md_files,
                 data.entries_to_validate))
    ELSE recursive_submodule_entry(prefix, adjusted_submodule_deps, data, exp_path,
                                   exp_dir_fsnode_id)

\* validate_expansion_directory_against_submodule_manifest_entry: one step
\* of the fold, for the expansion's directory exp_path.
validate_expansion_directory_against_submodule_manifest_entry(prefix, submodule_repo, adjusted_submodule_deps, data, exp_path, exp_dir_fsnode_id) ==
    IF exp_path \in DOMAIN data.remaining_sm_dirs
    THEN Valid(EntryValidationData(
                 MapRemove(data.remaining_sm_dirs, exp_path),
                 data.remaining_sm_files, data.remaining_md_files,
                 Append(data.entries_to_validate,
                        EntriesToValidate(DepsBelow(adjusted_submodule_deps, << exp_path >>),
                                          submodule_repo, exp_dir_fsnode_id,
                                          data.remaining_sm_dirs[exp_path].id))))
    ELSE recursive_submodule_entry(prefix, adjusted_submodule_deps, data, exp_path,
                                   exp_dir_fsnode_id)

\* The basename prefix of the metadata files (x_repo_submodule_metadata_file_prefix).
MetadataPrefix == "x-repo-submodule"

\* The try_fold of step 4 in every order the map of the expansion's
\* directories may be iterated in: the results it can end in.
RECURSIVE fold_results(_, _, _, _)
fold_results(submodule_repo, adjusted_submodule_deps, data, expansion_directories) ==
    IF DOMAIN expansion_directories = {} THEN { Valid(data) }
    ELSE UNION {
           Bind(validate_expansion_directory_against_submodule_manifest_entry(
                  MetadataPrefix, submodule_repo, adjusted_submodule_deps, data,
                  exp_path, expansion_directories[exp_path].id),
                LAMBDA r :
                  IF r.outcome # "Ok" THEN { r }
                  ELSE fold_results(submodule_repo, adjusted_submodule_deps, r.val,
                                    MapRemove(expansion_directories, exp_path))) :
           exp_path \in DOMAIN expansion_directories }

\* A step 5 that checks nothing.
ensure_accounted_for_nothing(data) == Valid(data)

\* A step 5 that forgets the files that are only in the expansion.
ensure_accounted_for_manifest_only(data) ==
    IF DOMAIN data.remaining_sm_dirs # {}
    THEN Invalid("Some directories present in submodule manifest are unaccounted for")
    ELSE IF DOMAIN data.remaining_sm_files # {}
    THEN Invalid("Some files present in submodule manifest are unaccounted for")
    ELSE Valid(data)

\* Step 5: everything of the submodule's manifest and every file that is
\* only in the expansion has been accounted for.
ensure_accounted_for(data) ==
    IF DOMAIN data.remaining_sm_dirs # {}
    THEN Invalid("Some directories present in submodule manifest are unaccounted for")
    ELSE IF DOMAIN data.remaining_sm_files # {}
    THEN Invalid("Some files present in submodule manifest are unaccounted for")
    ELSE IF DOMAIN data.remaining_md_files # {}
    THEN Invalid("Files present in the expansion are unaccounted for")
    ELSE Valid(data)

\* validate_working_copy_of_expansion_with_recursive_submodules: the results
\* the call can end in, over the orders of the fold and of the completion of
\* the recursive calls (step 6: the first failure of a call is the result).
RECURSIVE validate_working_copy_of_expansion_with_recursive_submodules(_, _, _, _)
RECURSIVE recursive_results(_)
recursive_results(entries_to_validate) ==
    LET results == [ i \in DOMAIN entries_to_validate |->
                       validate_working_copy_of_expansion_with_recursive_submodules(
                         entries_to_validate[i].rec_submodule_repo_deps,
                         entries_to_validate[i].submodule_repo,
                         entries_to_validate[i].expansion_fsnode_id,
                         entries_to_validate[i].submodule_repo_fsnode_id) ]
    IN  { r \in UNION { results[i] : i \in DOMAIN results } : r.outcome # "Ok" }
          \cup { r \in { Valid(<< >>) } : \A i \in DOMAIN results : Valid(<< >>) \in results[i] }

validate_working_copy_of_expansion_with_recursive_submodules(adjusted_submodule_deps, submodule_repo, expansion_fsnode_id, submodule_fsnode_id) ==
    Bind(split_entries(expansion_fsnode_id, submodule_fsnode_id), LAMBDA split :
      IF split.outcome # "Ok" THEN { split }
      ELSE UNION {
             Bind(Then(folded, LAMBDA data : ensure_accounted_for(data)), LAMBDA checked :
               IF checked.outcome # "Ok" THEN { checked }
               ELSE recursive_results(checked.val.entries_to_validate)) :
             folded \in fold_results(submodule_repo, adjusted_submodule_deps,
                                     split.val.data, split.val.expansion_directories) })

(***************************************************************************)
(* The validation of a commit of the large repo.  A commit (bonsai) is its *)
(* file changes by path and its parents, a parent standing for its files.  *)
(***************************************************************************)
\* The files of the parents taken together.
RECURSIVE ParentFiles(_)
ParentFiles(parents) ==
    IF parents = << >> THEN << >> ELSE Head(parents) @@ ParentFiles(Tail(parents))

\* RootFsnodeId::derive_single: the files of the commit, which are the files
\* of its parents with the changed paths replaced or deleted; a file that is
\* put where a directory was, or below where a file was, replaces it.
derive_single(bonsai) ==
    LET fc == bonsai.file_changes
        old == ParentFiles(bonsai.parents)
        put == { p \in DOMAIN fc : ~is_removed(fc[p]) }
        kept == { p \in DOMAIN old \ DOMAIN fc :
                    \A q \in put : ~is_prefix_of(q, p) /\ ~is_prefix_of(p, q) }
    IN  [ p \in kept \cup put |->
            IF p \in put THEN File(fc[p].content, "Regular") ELSE old[p] ]

\* list_non_submodule_files_under: the paths of the files of a parent
\* below path that are not of type GitSubmodule.
list_non_submodule_files_under(parent, path) ==
    { p \in DOMAIN parent : is_prefix_of(path, p) /\ parent[p].type # "GitSubmodule" }

\* The mover: the small repo sits in directory r of the large repo; the
\* paths in unmovable have no place in the large repo.
mover(unmovable, path) ==
    IF path \in unmovable THEN None ELSE Some(<< "r" >> \o path)

\* A result with the trace of what the call did to get to it.
Traced(r, trace) == [outcome |-> r.outcome, err |-> r.err, val |-> r.val, trace |-> trace]

\* The parents ensure_submodule_expansion_deletion lists, from the i-th on,
\* until one of them has a file the commit does not delete (try_all).
RECURSIVE deletion_listing(_, _, _)
deletion_listing(bonsai, synced_submodule_path, i) ==
    IF i > Len(bonsai.parents) THEN [all |-> TRUE, listed |-> << >>]
    ELSE IF \A path \in list_non_submodule_files_under(bonsai.parents[i], synced_submodule_path) :
                 path \in DOMAIN bonsai.file_changes /\ is_removed(bonsai.file_changes[path])
    THEN Bind(deletion_listing(bonsai, synced_submodule_path, i + 1), LAMBDA more :
           [all |-> more.all, listed |-> << << "list", i >> >> \o more.listed])
    ELSE [all |-> FALSE, listed |-> << << "list", i >> >>]

\* A check that lists the files of the parents and accepts whatever it finds.
ensure_deletion_unchecked(bonsai, synced_submodule_path) ==
    IF synced_submodule_path \in DOMAIN bonsai.file_changes
       /\ ~is_removed(bonsai.file_changes[synced_submodule_path])
    THEN Traced(Valid(bonsai), << >>)
    ELSE Traced(Valid(bonsai), deletion_listing(bonsai, synced_submodule_path, 1).listed)

\* A check that takes any entry at the expansion path, a deletion too, for
\* an implicit deletion.
ensure_deletion_any_entry(bonsai, synced_submodule_path) ==
    IF synced_submodule_path \in DOMAIN bonsai.file_changes
    THEN Traced(Valid(bonsai), << >>)
    ELSE Bind(deletion_listing(bonsai, synced_submodule_path, 1), LAMBDA l :
           IF l.all THEN Traced(Valid(bonsai), l.listed)
           ELSE Traced(Invalid("Submodule metadata file is being deleted without removing the entire submodule expansion"),
                       l.listed))

\* ensure_submodule_expansion_deletion
ensure_submodule_expansion_deletion(bonsai, synced_submodule_path) ==
    IF synced_submodule_path \in DOMAIN bonsai.file_changes
       /\ ~is_removed(bonsai.file_changes[synced_submodule_path])
    THEN Traced(Valid(bonsai), << >>)
    ELSE Bind(deletion_listing(bonsai, synced_submodule_path, 1), LAMBDA l :
           IF l.all THEN Traced(Valid(bonsai), l.listed)
           ELSE Traced(Invalid("Submodule metadata file is being deleted without removing the entire submodule expansion"),
                       l.listed))

\* get_submodule_expansion_fsnode_id
get_submodule_expansion_fsnode_id(bonsai, synced_submodule_path) ==
    Bind(find_entry(derive_single(bonsai), synced_submodule_path), LAMBDA entry :
      CASE entry.kind = "Tree" -> Valid(entry.id)
        [] entry.kind = "Leaf" ->
             Invalid("Path of submodule expansion in large repo contains a file, not a directory")
        [] entry.kind = "None" ->
             Invalid("No fsnode entry found in submodule expansion path in large repo"))

\* A comparison that hands every expansion to the tree diff, equal or not.
compare_expansion_always_diff(deps, bonsai, submodule_path, submodule_repo, synced_submodule_path, git_hash) ==
    Bind(root_fsnode_id_from_submodule_git_commit(submodule_repo, git_hash), LAMBDA sm :
      IF sm.outcome # "Ok" THEN { Traced(sm, << >>) }
      ELSE Bind(get_submodule_expansion_fsnode_id(bonsai, synced_submodule_path), LAMBDA exp :
        IF exp.outcome # "Ok" THEN { Traced(exp, << << "derive" >> >>) }
        ELSE { Traced(IF r.outcome = "Ok" THEN Valid(bonsai) ELSE r,
                      << << "derive" >>, << "diff" >> >>) :
                 r \in validate_working_copy_of_expansion_with_recursive_submodules(
                         DepsBelow(deps, submodule_path), submodule_repo, exp.val, sm.val) }))

\* Steps 2 and 3 of validate_submodule_expansion, and the tree diff when the
\* two trees differ: the results the call can end in, with their traces.
compare_expansion(deps, bonsai, submodule_path, submodule_repo, synced_submodule_path, git_hash) ==
    Bind(root_fsnode_id_from_submodule_git_commit(submodule_repo, git_hash), LAMBDA sm :
      IF sm.outcome # "Ok" THEN { Traced(sm, << >>) }
      ELSE Bind(get_submodule_expansion_fsnode_id(bonsai, synced_submodule_path), LAMBDA exp :
        IF exp.outcome # "Ok" THEN { Traced(exp, << << "derive" >> >>) }
        ELSE IF sm.val = exp.val THEN { Traced(Valid(bonsai), << << "derive" >> >>) }
        ELSE { Traced(IF r.outcome = "Ok" THEN Valid(bonsai) ELSE r,
                      << << "derive" >>, << "diff" >> >>) :
                 r \in validate_working_copy_of_expansion_with_recursive_submodules(
                         DepsBelow(deps, submodule_path), submodule_repo, exp.val, sm.val) }))

\* A validation that lets a changed expansion through when its metadata
\* file is not changed.
metadata_unchanged_accept(bonsai, expansion_changed) == Traced(Valid(bonsai), << >>)

\* A validation that lets no commit through that leaves the metadata file
\* as it is.
metadata_unchanged_reject(bonsai, expansion_changed) ==
    Traced(Invalid("Expansion of submodule changed without updating its metadata file"), << >>)

\* validate_submodule_expansion, when the commit does not change the
\* metadata file.
metadata_unchanged(bonsai, expansion_changed) ==
    IF expansion_changed
    THEN Traced(Invalid("Expansion of submodule changed without updating its metadata file"), << >>)
    ELSE Traced(Valid(bonsai), << >>)

\* An ok_or that puts the root of the small repo where the mover has no path.
ok_or_root(opt, err) == Valid(IF opt.some THEN opt.val ELSE << "r" >>)

\* Option::ok_or
ok_or(opt, err) == IF opt.some THEN Valid(opt.val) ELSE Invalid(err)

\* validate_submodule_expansion: the results the validation of the submodule
\* at submodule_path can end in.
validate_submodule_expansion(deps, unmovable, bonsai, submodule_path, submodule_repo) ==
    Bind(ok_or(mover(unmovable, submodule_path),
               "Mover failed to provide submodule path in the large repo"), LAMBDA moved :
      IF moved.outcome # "Ok" THEN { Traced(moved, << >>) }
      ELSE Bind(get_x_repo_submodule_metadata_file_path(moved.val, MetadataPrefix),
                LAMBDA metadata_file_path :
        IF metadata_file_path \notin DOMAIN bonsai.file_changes
        THEN { metadata_unchanged(bonsai,
                 \E p \in DOMAIN bonsai.file_changes : is_prefix_of(moved.val, p)) }
        ELSE IF is_removed(bonsai.file_changes[metadata_file_path])
        THEN { ensure_submodule_expansion_deletion(bonsai, moved.val) }
        ELSE Bind(git_hash_from_submodule_metadata_file(
                    bonsai.file_changes[metadata_file_path].content), LAMBDA git_hash :
               IF git_hash.outcome # "Ok" THEN { Traced(git_hash, << >>) }
               ELSE compare_expansion(deps, bonsai, submodule_path, submodule_repo,
                                      moved.val, git_hash.val))))

\* The submodules the small repo declares: a, the submodule s inside a, and b.
SubmoduleDeps == (<< "a" >> :> "repoA") @@ (<< "a", "s" >> :> "repoS") @@ (<< "b" >> :> "repoB")

\* The paths of the large repo the commits are about.
PathA == << "r", "a" >>
MetaA == get_x_repo_submodule_metadata_file_path(PathA, MetadataPrefix)
MetaS == get_x_repo_submodule_metadata_file_path(PathA \o << "s" >>, MetadataPrefix)

\* The files a parent may have: the expansion of a at h1, the same with a
\* file more, the expansion of a at h2 with s expanded at k1, and a with s
\* left as a GitSubmodule file.
ParentAtH1 ==
    (PathA \o << "f" >> :> File("c1", "Regular")) @@ (MetaA :> File("meta-h1", "Regular"))
ParentWithG == ParentAtH1 @@ (PathA \o << "g" >> :> File("c1", "Regular"))
ParentAtH2 ==
    (PathA \o << "f" >> :> File("c1", "Regular")) @@ (MetaA :> File("meta-h2", "Regular"))
      @@ (PathA \o << "s", "f" >> :> File("c1", "Regular")) @@ (MetaS :> File("meta-k1", "Regular"))
ParentUnexpanded ==
    ParentAtH1 @@ (PathA \o << "s" >> :> File("gitsm-k1", "GitSubmodule"))

\* A parent from before a was a submodule: a plain file where the expansion
\* would be.
ParentFileAtA == (PathA :> File("c1", "Regular"))

ParentChoices ==
    { << >>, << ParentAtH1 >>, << ParentWithG >>, << ParentAtH2 >>, << ParentUnexpanded >>,
      << ParentFileAtA >>,
      << ParentAtH1, ParentWithG >>, << ParentWithG, ParentAtH1 >>,
      << ParentFileAtA, ParentAtH1 >> }

\* What a commit may do to each path: nothing, or a file change.
NoChange == [kind |-> "none", content |-> ""]
ChangeChoices ==
    [ root |-> { NoChange, Change("c1"), UntrackedChange("c1"), Deletion, UntrackedDeletion },
      f    |-> { NoChange, Change("c1"), Deletion },
      g    |-> { NoChange, Change("c1"), Deletion },
      meta |-> { NoChange, Change("meta-h1"), Change("meta-h2"), Deletion, UntrackedDeletion },
      sf   |-> { NoChange, Change("c2") },
      bf   |-> { NoChange, Change("c1") },
      x    |-> { NoChange, Change("c1") },
      ms   |-> { NoChange, Change("meta-k1"), Change("meta-k2") } ]

ChangePaths ==
    [ root |-> PathA, f |-> PathA \o << "f" >>, g |-> PathA \o << "g" >>, meta |-> MetaA,
      sf |-> PathA \o << "s", "f" >>, bf |-> << "r", "b", "f" >>, x |-> << "r", "x" >>,
      ms |-> MetaS ]

\* The file changes of a choice c of one change per path.
FileChangesOf(c) ==
    [ p \in { ChangePaths[k] : k \in { k \in DOMAIN c : c[k] # NoChange } } |->
        c[CHOOSE k \in DOMAIN c : ChangePaths[k] = p] ]

\* BonsaiChangeset: no changed file is below another changed file.
NoPathConflict(fc) ==
    \A p, q \in DOMAIN fc : ~(is_prefix_of(p, q) /\ ~is_removed(fc[p]) /\ ~is_removed(fc[q]))

\* BonsaiChangeset: what the commit deletes is a file of one of its parents.
DeletesExist(fc, parents) ==
    \A p \in DOMAIN fc :
       is_removed(fc[p]) => \E k \in 1..Len(parents) : p \in DOMAIN parents[k]

\* validate_all_submodule_expansions has not returned yet.
Running == [outcome |-> "running", err |-> "", val |-> << >>]

InitExp ==
    /\ \E root \in ChangeChoices.root, f \in ChangeChoices.f, g \in ChangeChoices.g,
          meta \in ChangeChoices.meta, sf \in ChangeChoices.sf, bf \in ChangeChoices.bf,
          x \in ChangeChoices.x, ms \in ChangeChoices.ms :
       \E c \in { [root |-> root, f |-> f, g |-> g, meta |-> meta, sf |-> sf, bf |-> bf,
                   x |-> x, ms |-> ms] } :
       \E parents \in ParentChoices, unmovable \in { {}, { << "b" >> } } :
          /\ NoPathConflict(FileChangesOf(c))
          /\ DeletesExist(FileChangesOf(c), parents)
          /\ e_in = [bonsai |-> [file_changes |-> FileChangesOf(c), parents |-> parents],
                     submodule_deps |-> SubmoduleDeps, unmovable |-> unmovable]
    /\ e_todo = DOMAIN SubmoduleDeps
    /\ e_cur = None
    /\ e_log = << >>
    /\ e_out = Running
    /\ ConnIdle /\ ParamsIdle /\ ValIdle /\ KernelIdle /\ RestIdle

\* A fold that goes on to the next submodule whatever the last one returned.
FoldGoesOn_ignoring(out) == out.outcome # "idle"

\* try_fold: the fold goes on to the next submodule while no validation has
\* failed.
FoldGoesOn(out) == out.outcome = "running"

\* The fold of validate_all_submodule_expansions takes the next submodule,
\* in the order the map of the dependencies yields them.
StartSubmodule(submodule_path) ==
    /\ FoldGoesOn(e_out)
    /\ ~e_cur.some
    /\ submodule_path \in e_todo
    /\ e_cur' = Some(submodule_path)
    /\ e_todo' = e_todo \ { submodule_path }
    /\ UNCHANGED <<e_in, e_log, e_out, connVars, paramsVars, valVars, kernelVars, restVars>>

\* validate_submodule_expansion returns; an error ends the fold ("?").
FinishSubmodule ==
    /\ e_cur.some
    /\ \E r \in validate_submodule_expansion(e_in.submodule_deps, e_in.unmovable, e_in.bonsai,
                                             e_cur.val, e_in.submodule_deps[e_cur.val]) :
          /\ e_log' = Append(e_log, [path |-> e_cur.val, result |-> r])
          /\ e_out' = IF r.outcome = "Ok" \/ e_out.outcome # "running" THEN e_out
                      ELSE [outcome |-> r.outcome, err |-> r.err, val |-> r.val]
    /\ e_cur' = None
    /\ UNCHANGED <<e_in, e_todo, connVars, paramsVars, valVars, kernelVars, restVars>>

\* Ok(bonsai) once the fold is through.
ReturnBonsai ==
    /\ e_out.outcome = "running" /\ ~e_cur.some /\ e_todo = {}
    /\ e_out' = Valid(e_in.bonsai)
    /\ UNCHANGED <<e_in, e_todo, e_cur, e_log, connVars, paramsVars, valVars, kernelVars, restVars>>

NextExp ==
    \/ \E submodule_path \in DOMAIN SubmoduleDeps : StartSubmodule(submodule_path)
    \/ FinishSubmodule
    \/ ReturnBonsai

SpecExp == InitExp /\ [][NextExp]_vars

(***************************************************************************)
(* Commits that leave the expansions alone                                 *)
(***************************************************************************)
\* validate_all_submodule_expansions has returned.
Returned == e_out.outcome \notin { "idle", "running" }

\* The mover has a path in the large repo for every declared submodule.
AllMovable(in) == \A sp \in DOMAIN in.submodule_deps : mover(in.unmovable, sp).some

\* The commit changes no file below the expansion path of sp and does not
\* change the metadata file of sp.
UntouchedAt(in, sp) ==
    Bind(mover(in.unmovable, sp), LAMBDA moved :
      moved.some =>
        /\ \A p \in DOMAIN in.bonsai.file_changes : ~is_prefix_of(moved.val, p)
        /\ get_x_repo_submodule_metadata_file_path(moved.val, MetadataPrefix)
             \notin DOMAIN in.bonsai.file_changes)

Untouched(in) == \A sp \in DOMAIN in.submodule_deps : UntouchedAt(in, sp)

\* C13, as stated: a commit that changes no file below the expansion path
\* of a declared submodule and no metadata file comes back as Ok(commit),
\* whatever the declared submodules are.
C13_UntouchedCommitAccepted ==
    (Returned /\ Untouched(e_in)) => (e_out.outcome = "Ok" /\ e_out.val = e_in.bonsai)

\* C13, amended: when the mover has a path in the large repo for every
\* declared submodule, a commit that changes no file below an expansion path
\* and no metadata file comes back as Ok(commit), the very commit that went in.
C13_UntouchedMovableCommitAccepted ==
    (Returned /\ AllMovable(e_in) /\ Untouched(e_in))
       => (e_out.outcome = "Ok" /\ e_out.val = e_in.bonsai)

\* All three submodules were looked at and the commit, which changes a file
\* outside the expansions, came back.
C13_Witness ==
    /\ AllMovable(e_in) /\ Untouched(e_in)
    /\ << "r", "x" >> \in DOMAIN e_in.bonsai.file_changes
    /\ Len(e_log) = 3
    /\ e_out.outcome = "Ok" /\ e_out.val = e_in.bonsai

(***************************************************************************)
(* I1: a changed expansion needs a changed metadata file                   *)
(***************************************************************************)
\* The commit changes a file below the expansion path of sp and has no
\* entry for the metadata file of sp.
ChangedWithoutMetadata(in, sp) ==
    Bind(mover(in.unmovable, sp), LAMBDA moved :
      /\ moved.some
      /\ \E p \in DOMAIN in.bonsai.file_changes : is_prefix_of(moved.val, p)
      /\ get_x_repo_submodule_metadata_file_path(moved.val, MetadataPrefix)
           \notin DOMAIN in.bonsai.file_changes)

ErrI1 == "Expansion of submodule changed without updating its metadata file"

\* C14: when the commit changes a file below the expansion path of a declared
\* submodule and has no entry, change or deletion, for the metadata file of
\* that submodule, the validation of that submodule returns the error of I1
\* and the validation of the commit does not return Ok.
C14_ChangedExpansionNeedsMetadata ==
    \A sp \in DOMAIN e_in.submodule_deps :
       ChangedWithoutMetadata(e_in, sp) =>
         /\ Returned => e_out.outcome # "Ok"
         /\ \A i \in 1..Len(e_log) :
              e_log[i].path = sp =>
                (e_log[i].result.outcome = "Err" /\ e_log[i].result.err = ErrI1)

\* The submodule a was validated first and failed for a change of a/f
\* without a change of the metadata file of a.
C14_Witness ==
    /\ ChangedWithoutMetadata(e_in, << "a" >>)
    /\ Len(e_log) = 1 /\ e_log[1].path = << "a" >>
    /\ e_out.outcome = "Err" /\ e_out.err = ErrI1

(***************************************************************************)
(* Equal trees need no diff                                                *)
(***************************************************************************)
\* The root tree of the commit of the submodule repo that the content of a
\* changed metadata file names.
SubmoduleTreeNamed(repo, content) ==
    Bind(git_hash_from_submodule_metadata_file(content), LAMBDA git_hash :
      IF git_hash.outcome # "Ok" THEN git_hash
      ELSE root_fsnode_id_from_submodule_git_commit(repo, git_hash.val))

\* The commit has a content change of the metadata file of sp, and the tree
\* of the expansion of sp after the commit is the root tree of the commit
\* of the submodule repo that the metadata file names.
ExpansionMatches(in, sp) ==
    Bind(mover(in.unmovable, sp), LAMBDA moved :
      /\ moved.some
      /\ Bind(get_x_repo_submodule_metadata_file_path(moved.val, MetadataPrefix), LAMBDA md :
           /\ md \in DOMAIN in.bonsai.file_changes
           /\ ~is_removed(in.bonsai.file_changes[md])
           /\ Bind(SubmoduleTreeNamed(in.submodule_deps[sp], in.bonsai.file_changes[md].content),
                   LAMBDA sm :
                /\ sm.outcome = "Ok"
                /\ Bind(get_submodule_expansion_fsnode_id(in.bonsai, moved.val), LAMBDA exp :
                     exp.outcome = "Ok" /\ exp.val = sm.val))))

\* C15: when the commit changes the content of the metadata file of a
\* submodule and the tree of the expansion after the commit is the root tree
\* of the commit the metadata file names, the validation of that submodule
\* returns Ok(commit) and has not called the tree diff, which is what loads
\* the two trees.
C15_EqualTreesSkipDiff ==
    \A i \in 1..Len(e_log) :
       ExpansionMatches(e_in, e_log[i].path) =>
         /\ e_log[i].result.outcome = "Ok" /\ e_log[i].result.val = e_in.bonsai
         /\ \A j \in 1..Len(e_log[i].result.trace) : e_log[i].result.trace[j] # << "diff" >>

\* The commit deletes a/g and sets the metadata file of a to h1, whose tree
\* has a/f alone: a is validated without a diff.
C15_Witness ==
    /\ e_in.bonsai.parents = << ParentWithG >>
    /\ PathA \o << "g" >> \in DOMAIN e_in.bonsai.file_changes
    /\ ExpansionMatches(e_in, << "a" >>)
    /\ Len(e_log) >= 1 /\ e_log[1].path = << "a" >>
    /\ e_log[1].result.outcome = "Ok" /\ e_log[1].result.trace = << << "derive" >> >>

(***************************************************************************)
(* I4: a deleted metadata file needs a deleted expansion                   *)
(***************************************************************************)
\* The commit deletes the metadata file of sp and has no content change at
\* the expansion path of sp itself.
MetadataDeleted(in, sp) ==
    Bind(mover(in.unmovable, sp), LAMBDA moved :
      /\ moved.some
      /\ Bind(get_x_repo_submodule_metadata_file_path(moved.val, MetadataPrefix), LAMBDA md :
           md \in DOMAIN in.bonsai.file_changes /\ is_removed(in.bonsai.file_changes[md]))
      /\ ~(moved.val \in DOMAIN in.bonsai.file_changes
           /\ ~is_removed(in.bonsai.file_changes[moved.val])))

\* Every file of every parent that is below the expansion path of sp and is
\* not a GitSubmodule file has a deletion entry in the commit.
ParentFilesDeleted(in, sp) ==
    Bind(mover(in.unmovable, sp), LAMBDA moved :
      \A k \in 1..Len(in.bonsai.parents) :
        \A p \in DOMAIN in.bonsai.parents[k] :
          (is_prefix_of(moved.val, p) /\ in.bonsai.parents[k][p].type # "GitSubmodule")
             => (p \in DOMAIN in.bonsai.file_changes /\ is_removed(in.bonsai.file_changes[p])))

\* C16: when the commit deletes the metadata file of a submodule and has no
\* content change at the expansion path itself, the validation of that
\* submodule returns Ok if every file below the expansion path in every
\* parent that is not a GitSubmodule file has a deletion entry in the commit,
\* and returns an error if one of them has no entry or an entry that is not
\* a deletion.
C16_DeletedMetadataNeedsDeletedFiles ==
    \A i \in 1..Len(e_log) :
       MetadataDeleted(e_in, e_log[i].path) =>
         IF ParentFilesDeleted(e_in, e_log[i].path)
         THEN e_log[i].result.outcome = "Ok" /\ e_log[i].result.val = e_in.bonsai
         ELSE e_log[i].result.outcome = "Err"

\* With two parents, one of them with a/g, the commit deletes the metadata
\* file, a/f and a/g, and the submodule a is validated after both parents
\* were listed.
C16_Witness ==
    /\ Len(e_in.bonsai.parents) = 2
    /\ MetadataDeleted(e_in, << "a" >>) /\ ParentFilesDeleted(e_in, << "a" >>)
    /\ \E i \in 1..Len(e_log) :
         /\ e_log[i].path = << "a" >>
         /\ e_log[i].result.outcome = "Ok"
         /\ e_log[i].result.trace = << << "list", 1 >>, << "list", 2 >> >>

\* The commit deletes the metadata file of sp.
MetadataRemoved(in, sp) ==
    Bind(mover(in.unmovable, sp), LAMBDA moved :
      /\ moved.some
      /\ Bind(get_x_repo_submodule_metadata_file_path(moved.val, MetadataPrefix), LAMBDA md :
           md \in DOMAIN in.bonsai.file_changes /\ is_removed(in.bonsai.file_changes[md])))

\* The tree of the commit has a directory at the expansion path of sp.
DirectoryAtExpansion(in, sp) ==
    find_entry(derive_single(in.bonsai), mover(in.unmovable, sp).val).kind = "Tree"

\* C17: when the validator accepts a commit that deletes the metadata file
\* of a submodule, the tree of the commit has no directory at the expansion
\* path of that submodule: nothing is there, or a file is.
C17_AcceptedDeletionLeavesNoDirectory ==
    (Returned /\ e_out.outcome = "Ok") =>
       \A sp \in DOMAIN e_in.submodule_deps :
          MetadataRemoved(e_in, sp) => ~DirectoryAtExpansion(e_in, sp)

\* C17, the case the claim names: with the expansion of a at h1 as only
\* parent, a commit that deletes the metadata file of a and a/f and adds a/g
\* is not accepted.
C17_AddedFileNotAccepted ==
    ( /\ e_in.bonsai.parents = << ParentAtH1 >>
      /\ MetaA \in DOMAIN e_in.bonsai.file_changes /\ is_removed(e_in.bonsai.file_changes[MetaA])
      /\ PathA \o << "g" >> \in DOMAIN e_in.bonsai.file_changes
      /\ Returned )
       => e_out.outcome # "Ok"

(***************************************************************************)
(* Recursive submodules: the two git hashes                                *)
(***************************************************************************)
\* The two trees the validation of sp compares: the expansion of sp after
\* the commit and the root tree of the commit its metadata file names; none
\* when the commit has no content change of the metadata file or one of the
\* trees is not to be had.
TreesCompared(in, sp) ==
    Bind(mover(in.unmovable, sp), LAMBDA moved :
      IF ~moved.some THEN None
      ELSE Bind(get_x_repo_submodule_metadata_file_path(moved.val, MetadataPrefix), LAMBDA md :
        IF md \notin DOMAIN in.bonsai.file_changes THEN None
        ELSE IF is_removed(in.bonsai.file_changes[md]) THEN None
        ELSE Bind(SubmoduleTreeNamed(in.submodule_deps[sp], in.bonsai.file_changes[md].content),
                  LAMBDA sm :
          IF sm.outcome # "Ok" THEN None
          ELSE Bind(get_submodule_expansion_fsnode_id(in.bonsai, moved.val), LAMBDA exp :
            IF exp.outcome # "Ok" THEN None
            ELSE Some([expansion |-> exp.val, submodule |-> sm.val])))))

\* The recursive submodules at the top of the two trees: the names that are
\* a GitSubmodule file in the submodule's tree and a directory in the
\* expansion.
RecursiveSubmodulesOf(t) ==
    { p[1] : p \in { q \in DOMAIN t.submodule :
                       /\ Len(q) = 1 /\ t.submodule[q].type = "GitSubmodule"
                       /\ \E d \in DOMAIN t.expansion : Len(d) > 1 /\ d[1] = q[1] } }

\* The expansion has a metadata file for the recursive submodule at name
\* and the git hash in it is not the one in the GitSubmodule file.
HashesDiffer(t, name) ==
    Bind(<< x_repo_submodule_metadata_file_basename(name, MetadataPrefix) >>, LAMBDA md :
      /\ md \in DOMAIN t.expansion
      /\ Bind(git_hash_from_submodule_metadata_file(t.expansion[md].content), LAMBDA h :
           /\ h.outcome = "Ok"
           /\ Bind(get_git_hash_from_submodule_file(t.submodule[<< name >>].content), LAMBDA g :
                g.outcome = "Ok" /\ g.val # h.val)))

\* C18: when the expansion has a recursive submodule whose metadata file
\* holds another git hash than the GitSubmodule file at the same path of the
\* submodule's tree, the validation that compares the two trees does not
\* return Ok.
C18_DifferentHashesNeverSucceed ==
    \A i \in 1..Len(e_log) :
       Bind(TreesCompared(e_in, e_log[i].path), LAMBDA t :
         (t.some /\ \E name \in RecursiveSubmodulesOf(t.val) : HashesDiffer(t.val, name))
            => e_log[i].result.outcome # "Ok")

\* The metadata file of s names k2 and the expansion of s is the tree of k2,
\* but the commit h2 of a has s at k1: the validation of a/s went through
\* and the tree diff of a ended in the failed assertion.
C18_Witness ==
    /\ Len(e_log) = 2
    /\ e_log[1].path = << "a", "s" >> /\ e_log[1].result.outcome = "Ok"
    /\ e_log[2].path = << "a" >> /\ e_log[2].result.outcome = "Panic"
    /\ e_log[2].result.trace = << << "derive" >>, << "diff" >> >>
    /\ Bind(TreesCompared(e_in, << "a" >>), LAMBDA t : t.some /\ HashesDiffer(t.val, "s"))

(***************************************************************************)
(* Everything is accounted for after the fold                              *)
(***************************************************************************)
\* Something is left in one of the three maps of the fold.
Residual(data) ==
    \/ DOMAIN data.remaining_sm_dirs # {}
    \/ DOMAIN data.remaining_sm_files # {}
    \/ DOMAIN data.remaining_md_files # {}

\* The fold over the expansion's directories that differ can go through and
\* leave something in one of the three maps, for the trees t compared for
\* the submodule sp.
FoldLeavesResidual(in, sp, t) ==
    Bind(split_entries(t.expansion, t.submodule), LAMBDA split :
      /\ split.outcome = "Ok"
      /\ \E folded \in fold_results(in.submodule_deps[sp], DepsBelow(in.submodule_deps, sp),
                                    split.val.data, split.val.expansion_directories) :
           folded.outcome = "Ok" /\ Residual(folded.val))

\* C19: when the two trees differ and the fold over the expansion's
\* directories leaves a directory or a file of the submodule unmatched, or a
\* file that is only in the expansion unconsumed, the tree diff fails: the
\* validation returns an error, and returns Ok only with the three maps empty.
C19_ResidualEntriesFail ==
    \A i \in 1..Len(e_log) :
       Bind(TreesCompared(e_in, e_log[i].path), LAMBDA t :
         (/\ t.some
          /\ t.val.expansion # t.val.submodule
          /\ FoldLeavesResidual(e_in, e_log[i].path, t.val))
            => e_log[i].result.outcome = "Err")

\* The parent has a/g, the commit sets the metadata file of a to h1, whose
\* tree has a/f alone, and leaves a/g where it is: g is left over after the
\* fold and the diff fails.
C19_Witness ==
    /\ e_in.bonsai.parents = << ParentWithG >>
    /\ Len(e_log) >= 1 /\ e_log[1].path = << "a" >>
    /\ Bind(TreesCompared(e_in, << "a" >>), LAMBDA t :
         t.some /\ FoldLeavesResidual(e_in, << "a" >>, t.val))
    /\ e_log[1].result.trace = << << "derive" >>, << "diff" >> >>
    /\ e_log[1].result.outcome = "Err"
    /\ e_log[1].result.err = "Files present in the expansion are unaccounted for"

(***************************************************************************)
(* One submodule after the other                                           *)
(***************************************************************************)
\* C20: the declared submodules are validated one after the other: while a
\* submodule is being validated all the validations before it have returned
\* Ok, a validation that fails is the last one, the submodules after it are
\* never validated, and its failure is what the validation of the commit
\* returns.
C20_SequentialFirstFailureAborts ==
    /\ \A i \in 1..Len(e_log) :
         (i < Len(e_log) \/ e_cur.some) => e_log[i].result.outcome = "Ok"
    /\ \A i \in 1..Len(e_log) :
         e_log[i].result.outcome # "Ok" =>
           /\ e_out.outcome = e_log[i].result.outcome
           /\ e_out.err = e_log[i].result.err
           /\ Cardinality(e_todo) = Cardinality(DOMAIN e_in.submodule_deps) - i
    /\ (Returned /\ e_out.outcome # "Ok") =>
         (Len(e_log) >= 1 /\ e_log[Len(e_log)].result.outcome = e_out.outcome)

\* The first submodule went through, the second failed, and the third is
\* left unvalidated with the failure of the second as the result.
C20_Witness ==
    /\ Len(e_log) = 2
    /\ e_log[1].result.outcome = "Ok"
    /\ e_log[2].result.outcome = "Err"
    /\ e_out.outcome = "Err" /\ e_out.err = e_log[2].result.err
    /\ Cardinality(e_todo) = 1 /\ ~e_cur.some

(***************************************************************************)
(* Step 6 of a tree diff: the recursive diffs, buffer_unordered(100).      *)
(* The queue is entries_to_validate as the fold left it; the diffs in      *)
(* flight are a bag, equal entries being alike.                            *)
(***************************************************************************)
\* buffer_unordered(100)
FanOut == 100

\* How many entries more than FanOut the longest queue has.
MaxOver == 2

\* A recursive submodule expanded as its commit has it, one whose expansion
\* has a file more, and one whose expansion has another file than the commit.
EntryOk ==
    EntriesToValidate(<< >>, "repoS", (<< "f" >> :> File("c1", "Regular")),
                      (<< "f" >> :> File("c1", "Regular")))
EntryExtra ==
    EntriesToValidate(<< >>, "repoS",
                      (<< "f" >> :> File("c1", "Regular")) @@ (<< "g" >> :> File("c1", "Regular")),
                      (<< "f" >> :> File("c1", "Regular")))
EntryMissing ==
    EntriesToValidate(<< >>, "repoS", (<< "g" >> :> File("c1", "Regular")),
                      (<< "f" >> :> File("c1", "Regular")))

\* The queues: short ones and ones around FanOut, with at most one entry of
\* each failing kind, at either end of the queue.
QueueLengths == 0..3 \cup { n \in (FanOut - 1)..(FanOut + MaxOver) : n >= 0 }
FanQueues ==
    { [ i \in 1..n |-> IF i = extra THEN EntryExtra
                       ELSE IF i = missing THEN EntryMissing ELSE EntryOk ] :
        << n, extra, missing >> \in
          { t \in QueueLengths \X (0..(FanOut + MaxOver)) \X (0..(FanOut + MaxOver)) :
              /\ t[2] \in { 0, 1, 2, t[1] - 1, t[1] } /\ t[2] <= t[1]
              /\ t[3] \in { 0, 1, 2, t[1] - 1, t[1] } /\ t[3] <= t[1]
              /\ (t[2] = 0 \/ t[2] # t[3]) } }

\* The results the recursive diff of an entry can end in.
EntryResults(entry) ==
    validate_working_copy_of_expansion_with_recursive_submodules(
      entry.rec_submodule_repo_deps, entry.submodule_repo,
      entry.expansion_fsnode_id, entry.submodule_repo_fsnode_id)

InitFan ==
    /\ f_queue \in FanQueues
    /\ f_next = 0
    /\ f_flight = EmptyBag
    /\ f_done = 0
    /\ f_out = Running
    /\ ConnIdle /\ ParamsIdle /\ ValIdle /\ KernelIdle /\ ExpIdle /\ ChunkIdle /\ LaterIdle

\* A stream that takes every future it is given at once.
HasRoom_unbounded(flight) == TRUE

\* buffer_unordered(100) takes a further future while fewer than 100 are in
\* flight.
HasRoom(flight) == BagCardinality(flight) < FanOut

\* A try_collect that goes on after a failure.
Collecting_on(out) == out.outcome # "idle"

\* try_collect: the stream is polled until its first Err.
Collecting(out) == out.outcome = "running"

\* buffer_unordered can take the next future of the queue.
CanStart == f_next < Len(f_queue) /\ HasRoom(f_flight)

\* The next entry of the queue becomes a recursive diff in flight.
StartDiff ==
    /\ Collecting(f_out)
    /\ CanStart
    /\ f_next' = f_next + 1
    /\ f_flight' = f_flight (+) SetToBag({ f_queue[f_next + 1] })
    /\ UNCHANGED <<f_queue, f_done, f_out, connVars, paramsVars, valVars, kernelVars, expVars, chunkVars, laterVars>>

\* One of the diffs in flight returns, whichever is first; an Err is what
\* try_collect returns, and the stream with the other diffs is dropped.
FinishDiff ==
    /\ Collecting(f_out)
    /\ ~CanStart
    /\ \E entry \in BagToSet(f_flight) : \E r \in EntryResults(entry) :
         /\ f_flight' = f_flight (-) SetToBag({ entry })
         /\ IF r.outcome = "Ok"
            THEN f_done' = f_done + 1 /\ f_out' = f_out
            ELSE f_done' = f_done
                 /\ f_out' = IF f_out.outcome = "running" THEN r ELSE f_out
    /\ UNCHANGED <<f_queue, f_next, connVars, paramsVars, valVars, kernelVars, expVars, chunkVars, laterVars>>

\* Ok(()) when every diff has returned Ok.
ReturnDiffs ==
    /\ f_out.outcome = "running"
    /\ f_next = Len(f_queue) /\ f_flight = EmptyBag
    /\ f_out' = Valid(<< >>)
    /\ UNCHANGED <<f_queue, f_next, f_flight, f_done, connVars, paramsVars, valVars, kernelVars, expVars, chunkVars, laterVars>>

NextFan == StartDiff \/ FinishDiff \/ ReturnDiffs

SpecFan == InitFan /\ [][NextFan]_vars

\* C21: of the recursive diffs one tree diff has queued at most 100 are in
\* flight at any moment, and a diff beyond the first 100 has started only
\* after as many of the diffs before it have finished.
C21_AtMostFanOutInFlight ==
    /\ BagCardinality(f_flight) <= FanOut
    /\ f_next - f_done <= FanOut + (IF f_out.outcome = "Err" THEN 1 ELSE 0)
    /\ (f_next > FanOut) => (f_done >= f_next - FanOut)

\* Of 102 queued diffs 100 were started, one has finished and the 101st has
\* taken its place; the 102nd waits.
C21_Witness ==
    /\ Len(f_queue) = FanOut + 2
    /\ f_next = FanOut + 1 /\ f_done = 1
    /\ BagCardinality(f_flight) = FanOut
    /\ f_out.outcome = "running"

\* The entries of the queue, and those whose diff cannot return Ok.
QueuedEntries == { f_queue[i] : i \in 1..Len(f_queue) }
StartedEntries == { f_queue[i] : i \in 1..f_next }
FailuresOf(entries) ==
    UNION { { r \in EntryResults(entry) : r.outcome # "Ok" } : entry \in entries }

\* What step 6 has returned is right for its queue: Ok only when every
\* queued diff has returned Ok, else the failure of a diff that was started.
FanResultRight ==
    /\ f_out.outcome = "Ok" =>
         (f_done = Len(f_queue) /\ FailuresOf(QueuedEntries) = {})
    /\ f_out.outcome \notin { "running", "Ok" } =>
         (f_out \in FailuresOf(StartedEntries) /\ f_out \in recursive_results(f_queue))
    /\ FailuresOf(QueuedEntries) = {} => f_out.outcome \in { "running", "Ok" }

\* C22: step 6 returns Ok exactly when every queued recursive diff returns
\* Ok, in whatever order the diffs finish; the first diff that fails is what
\* it returns, and from then on no queued diff is started and none of the
\* diffs in flight is waited for.
C22_FirstFailureWins ==
    /\ []FanResultRight
    /\ [][f_out.outcome # "running" => UNCHANGED <<f_next, f_flight, f_done, f_out>>]_vars

\* Of 102 queued diffs the first has failed with 99 others in flight and two
\* not started.
C22_Witness ==
    /\ Len(f_queue) = FanOut + 2
    /\ f_out.outcome = "Err" /\ f_out.err = "Files present in the expansion are unaccounted for"
    /\ f_next = FanOut /\ f_done = 0
    /\ BagCardinality(f_flight) = FanOut - 1

(***************************************************************************)
(* filestore/chunk.rs: ChunkStream and make_chunks.  The input stream is   *)
(* the chunks of c_call.data; a poll of it may find it not ready.  The     *)
(* bytes of the input are all different, so that a byte that is lost,      *)
(* doubled or out of place shows.                                          *)
(***************************************************************************)
\* The most chunks of an input, the longest chunk, the largest chunk_size
\* and the largest expected_size.
MaxChunks == 3
MaxChunkLen == 3
MaxChunkSize == 4
MaxExpected == 5

\* The chunks of the given lengths, their bytes numbered from first + 1 on.
RECURSIVE ChunksOf(_, _)
ChunksOf(lens, first) ==
    IF lens = << >> THEN << >>
    ELSE << [ i \in 1..Head(lens) |-> first + i ] >> \o ChunksOf(Tail(lens), first + Head(lens))

ChunkInputs == { ChunksOf(lens, 0) : lens \in SeqsUpTo(0..MaxChunkLen, MaxChunks) }

\* BytesMut::split_to that hands out the whole buffer.
split_to_all(buff, at) == [chunk |-> buff, rest |-> << >>]

\* BytesMut::split_to(at): the first at bytes, which leave the buffer.
split_to(buff, at) == [chunk |-> Take(buff, at), rest |-> Drop(buff, at)]

\* An extend_from_slice that overwrites the buffer.
extend_from_slice_over(buff, bytes) == bytes

\* BytesMut::extend_from_slice
extend_from_slice(buff, bytes) == buff \o bytes

\* A check that lets the stream go one byte over expected_size.
SizeExceeded_late(observed_size, expected_size) == observed_size > expected_size + 1

\* observed_size > expected_size
SizeExceeded(observed_size, expected_size) == observed_size > expected_size

\* ErrorKind::InvalidSize(expected_size, observed_size)
InvalidSize(expected_size, observed_size) == << expected_size, observed_size >>

\* What a poll returns.
NotReady == [kind |-> "NotReady", val |-> << >>, err |-> << >>]
ReadySome(chunk) == [kind |-> "Some", val |-> chunk, err |-> << >>]
ReadyNone == [kind |-> "None", val |-> << >>, err |-> << >>]
PollErr(err) == [kind |-> "Err", val |-> << >>, err |-> err]

\* The state of the stream or future between polls, with what the poll returned.
Polled(pos, observed_size, buff, ret) ==
    [pos |-> pos, observed_size |-> observed_size, buff |-> buff, ret |-> ret]

\* ChunkStream::poll on data, with the size check of make_chunks in front of
\* it when checked; the input stream is ready for the next ready polls.
RECURSIVE ChunkStream_poll(_, _, _, _, _, _, _, _)
ChunkStream_poll(data, checked, expected_size, chunk_size, pos, observed_size, buff, ready) ==
    IF Len(buff) >= chunk_size
    THEN Bind(split_to(buff, chunk_size), LAMBDA s :
           Polled(pos, observed_size, s.rest, ReadySome(s.chunk)))
    ELSE IF ready = 0 THEN Polled(pos, observed_size, buff, NotReady)
    ELSE IF pos = Len(data)
    THEN IF Len(buff) > 0 THEN Polled(pos, observed_size, << >>, ReadySome(buff))
         ELSE Polled(pos, observed_size, buff, ReadyNone)
    ELSE IF checked /\ SizeExceeded(observed_size + Len(data[pos + 1]), expected_size)
    THEN Polled(pos + 1, observed_size + Len(data[pos + 1]), buff,
                PollErr(InvalidSize(expected_size, observed_size + Len(data[pos + 1]))))
    ELSE ChunkStream_poll(data, checked, expected_size, chunk_size, pos + 1,
                          observed_size + Len(data[pos + 1]),
                          extend_from_slice(buff, data[pos + 1]), ready - 1)

\* The poll of the future of the Inline case: the fold of the checked stream
\* into buff.
RECURSIVE fold_poll(_, _, _, _, _, _)
fold_poll(data, expected_size, pos, observed_size, buff, ready) ==
    IF ready = 0 THEN Polled(pos, observed_size, buff, NotReady)
    ELSE IF pos = Len(data) THEN Polled(pos, observed_size, << >>, ReadySome(buff))
    ELSE IF SizeExceeded(observed_size + Len(data[pos + 1]), expected_size)
    THEN Polled(pos + 1, observed_size + Len(data[pos + 1]), buff,
                PollErr(InvalidSize(expected_size, observed_size + Len(data[pos + 1]))))
    ELSE fold_poll(data, expected_size, pos + 1, observed_size + Len(data[pos + 1]),
                   extend_from_slice(buff, data[pos + 1]), ready - 1)

\* What the two constructors return.
Panic == [kind |-> "Panic", size |-> 0]
ChunkStream_new(chunk_size) ==
    IF chunk_size > 0 THEN [kind |-> "ChunkStream", size |-> 0] ELSE Panic

\* A choice that chunks also when the expected size is the chunk size.
WantsChunked_inclusive(expected_size, chunk_size) == expected_size >= chunk_size

\* expected_size > chunk_size
WantsChunked(expected_size, chunk_size) == expected_size > chunk_size

\* make_chunks: Chunked(expected_size, stream) or Inline(future).
make_chunks(data, expected_size, chunk_size) ==
    IF WantsChunked(expected_size, chunk_size)
    THEN IF ChunkStream_new(chunk_size).kind = "Panic" THEN Panic
         ELSE [kind |-> "Chunked", size |-> expected_size]
    ELSE [kind |-> "Inline", size |-> 0]

\* Where the consumer stands.
ConsumerAt(kind, val, err) == [kind |-> kind, val |-> val, err |-> err]

InitChunk ==
    /\ \E data \in ChunkInputs, chunk_size \in 0..MaxChunkSize :
         \/ c_call = [fn |-> "ChunkStream::new", data |-> data, expected_size |-> 0,
                      chunk_size |-> chunk_size]
         \/ \E expected_size \in 0..MaxExpected :
              c_call = [fn |-> "make_chunks", data |-> data, expected_size |-> expected_size,
                        chunk_size |-> chunk_size]
    /\ c_chunks = [kind |-> "none"]
    /\ c_pos = 0 /\ c_observed = 0 /\ c_buff = << >> /\ c_out = << >>
    /\ c_state = ConsumerAt("called", << >>, << >>)
    /\ ConnIdle /\ ParamsIdle /\ ValIdle /\ KernelIdle /\ ExpIdle /\ FanIdle /\ LaterIdle

\* The call returns (or panics, on the assertion of ChunkStream::new).
ConstructChunks ==
    /\ c_state.kind = "called"
    /\ c_chunks' = IF c_call.fn = "make_chunks"
                   THEN make_chunks(c_call.data, c_call.expected_size, c_call.chunk_size)
                   ELSE ChunkStream_new(c_call.chunk_size)
    /\ c_state' = ConsumerAt(IF c_chunks'.kind = "Panic" THEN "panicked" ELSE "polling",
                             << >>, << >>)
    /\ UNCHANGED <<c_call, c_pos, c_observed, c_buff, c_out,
                   connVars, paramsVars, valVars, kernelVars, expVars, fanVars, laterVars>>

\* The state after a poll that returned p.
AfterPoll(p) ==
    /\ c_pos' = p.pos /\ c_observed' = p.observed_size /\ c_buff' = p.buff
    /\ c_out' = IF p.ret.kind = "Some" /\ c_chunks.kind # "Inline"
                THEN Append(c_out, p.ret.val) ELSE c_out
    /\ c_state' = CASE p.ret.kind = "Err" -> ConsumerAt("failed", << >>, p.ret.err)
                    [] p.ret.kind = "None" -> ConsumerAt("done", << >>, << >>)
                    [] p.ret.kind = "Some" /\ c_chunks.kind = "Inline" ->
                         ConsumerAt("done", p.ret.val, << >>)
                    [] OTHER -> c_state

\* collect() polls the stream, bare or Chunked, until it ends or fails.
PollStream ==
    /\ c_state.kind = "polling"
    /\ c_chunks.kind \in { "ChunkStream", "Chunked" }
    /\ \E ready \in 0..(Len(c_call.data) + 1) :
         AfterPoll(ChunkStream_poll(c_call.data, c_chunks.kind = "Chunked",
                                    c_call.expected_size, c_call.chunk_size,
                                    c_pos, c_observed, c_buff, ready))
    /\ UNCHANGED <<c_call, c_chunks, connVars, paramsVars, valVars, kernelVars, expVars, fanVars, laterVars>>

\* block_on polls the future of the Inline case until it is done or fails.
PollFuture ==
    /\ c_state.kind = "polling"
    /\ c_chunks.kind = "Inline"
    /\ \E ready \in 0..(Len(c_call.data) + 1) :
         AfterPoll(fold_poll(c_call.data, c_call.expected_size,
                             c_pos, c_observed, c_buff, ready))
    /\ UNCHANGED <<c_call, c_chunks, connVars, paramsVars, valVars, kernelVars, expVars, fanVars, laterVars>>

NextChunk == ConstructChunks \/ PollStream \/ PollFuture

SpecChunk == InitChunk /\ [][NextChunk]_vars


\* A ChunkStream is being polled: the bare one or the one inside Chunked.
IsChunkStream == c_chunks.kind \in { "ChunkStream", "Chunked" }
\* The input chunks read so far.
InputRead == Take(c_call.data, c_pos)

\* C23: for every sequence of input chunks and every chunk_size > 0, the
\* chunks ChunkStream has emitted, followed by the bytes it still buffers,
\* are the bytes of the input chunks it has read, in their order; so when
\* the stream has ended, the concatenation of the emitted chunks is the
\* concatenation of the input chunks: no byte is lost, doubled or reordered.
C23_EmittedBytesAreInputBytes ==
    (IsChunkStream /\ c_call.chunk_size > 0 /\ c_state.kind # "failed") =>
        /\ Concat(c_out) \o c_buff = Concat(InputRead)
        /\ (c_state.kind = "done") => (Concat(c_out) = Concat(c_call.data))
\* The stream has ended after an input chunk larger than chunk_size and one
\* smaller than it, having emitted several chunks.
C23_Witness ==
    /\ c_chunks.kind = "ChunkStream" /\ c_state.kind = "done"
    /\ c_call.chunk_size = 2 /\ Len(c_call.data) = 3
    /\ Len(c_call.data[1]) = 3 /\ Len(c_call.data[2]) = 1 /\ Len(c_call.data[3]) = 3
    /\ c_out = << <<1, 2>>, <<3, 4>>, <<5, 6>>, <<7>> >>

\* C24: every chunk ChunkStream has emitted except the last one has exactly
\* chunk_size bytes, and the last one has at most chunk_size bytes (and at
\* least one).
C24_ChunksHaveChunkSize ==
    (IsChunkStream /\ c_call.chunk_size > 0) =>
        /\ \A i \in 1..(Len(c_out) - 1) : Len(c_out[i]) = c_call.chunk_size
        /\ (c_out # << >>) =>
             /\ Len(c_out[Len(c_out)]) <= c_call.chunk_size
             /\ Len(c_out[Len(c_out)]) > 0
\* The stream has ended with two full chunks and a shorter last one.
C24_Witness ==
    /\ c_chunks.kind = "ChunkStream" /\ c_state.kind = "done"
    /\ c_call.chunk_size = 3 /\ Len(c_out) = 3
    /\ Len(c_out[1]) = 3 /\ Len(c_out[2]) = 3 /\ Len(c_out[3]) = 1


\* make_chunks has been called and has returned or panicked.
MadeChunks == c_call.fn = "make_chunks" /\ c_state.kind # "called"
\* The choice of make_chunks is the one the two sizes ask for.
ChoiceBySizes ==
    /\ (c_chunks.kind = "Chunked" /\ c_chunks.size = c_call.expected_size)
         <=> (c_call.expected_size > c_call.chunk_size)
    /\ (c_chunks.kind = "Inline") <=> ~(c_call.expected_size > c_call.chunk_size)

MadeOutput == c_call.fn = "make_chunks" /\ c_chunks.kind \in { "Inline", "Chunked" }
\* The output of make_chunks has failed.
OutputFailed == MadeOutput /\ c_state.kind = "failed"
\* The output has failed exactly when the bytes read exceed expected_size;
\* the error names both sizes, the chunk that went over is the last one read,
\* and the Inline future has yielded no bytes.
FailsWhenOver ==
    MadeOutput =>
        /\ c_observed = Len(Concat(InputRead))
        /\ (c_observed > c_call.expected_size) <=> (c_state.kind = "failed")
        /\ (c_state.kind = "failed") =>
             /\ c_state.err = InvalidSize(c_call.expected_size, c_observed)
             /\ c_state.val = << >>
             /\ Len(Concat(Take(c_call.data, c_pos - 1))) <= c_call.expected_size
\* The poll that fails yields no chunk, and after it nothing is read or yielded.
NothingAfterFailure ==
    /\ (MadeOutput /\ c_state'.kind = "failed") => (c_out' = c_out)
    /\ OutputFailed => UNCHANGED <<c_pos, c_observed, c_out, c_state>>

C26_WitnessInline ==
    /\ OutputFailed /\ c_chunks.kind = "Inline"
    /\ c_call.expected_size = 3 /\ c_call.chunk_size = 4
    /\ c_state.err = InvalidSize(3, 5) /\ c_pos = 2 /\ Len(c_call.data) = 3


(***************************************************************************)
(* A submodule the mover has no path for                                   *)
(***************************************************************************)
\* The declared submodule paths the mover has no large-repo path for.
Unmoved(in) == DOMAIN in.submodule_deps \cap in.unmovable
ErrMover == "Mover failed to provide submodule path in the large repo"

\* C27: if the mover returns None for a declared submodule path, validation
\* of the commit fails, whatever files the commit changes: the validation of
\* that submodule returns the mover's error without a look at the commit,
\* and the commit is never accepted.
C27_UnmovedSubmoduleFailsCommit ==
    /\ \A i \in 1..Len(e_log) :
         e_log[i].path \in Unmoved(e_in) =>
            e_log[i].result = Traced(Invalid(ErrMover), << >>)
    /\ (Returned /\ Unmoved(e_in) # {}) => e_out.outcome # "Ok"
\* A commit that changes nothing has failed on submodule b, which the mover
\* has no path for, after a and a/s were found valid.
C27_Witness ==
    /\ Returned /\ e_in.unmovable = { << "b" >> }
    /\ e_in.bonsai.file_changes = << >> /\ e_in.bonsai.parents = << ParentAtH1 >>
    /\ Len(e_log) = 3 /\ e_log[3].path = << "b" >>
    /\ e_out = Invalid(ErrMover)


(***************************************************************************)
(* Implicit deletion of an expansion                                       *)
(***************************************************************************)
\* The change the commit has exactly at the expansion path of sp, if any.
RootChange(in, sp) ==
    Bind(mover(in.unmovable, sp), LAMBDA moved :
      IF moved.some /\ moved.val \in DOMAIN in.bonsai.file_changes
      THEN in.bonsai.file_changes[moved.val] ELSE NoChange)

\* C28: when the commit deletes the metadata file of a submodule and has a
\* Change or UntrackedChange exactly at the expansion path, the validation
\* of the submodule returns Ok without listing the files of any parent; with
\* a Deletion or UntrackedDeletion there it lists the files of the parents
\* and returns Ok exactly when all of them are deleted.
C28_ContentChangeAtRootIsImplicitDeletion ==
    \A i \in 1..Len(e_log) :
       MetadataRemoved(e_in, e_log[i].path) =>
          /\ (RootChange(e_in, e_log[i].path).kind \in { "Change", "UntrackedChange" }) =>
                e_log[i].result = Traced(Valid(e_in.bonsai), << >>)
          /\ is_removed(RootChange(e_in, e_log[i].path)) =>
                /\ e_log[i].result.trace # << >>
                /\ e_log[i].result.trace[1] = << "list", 1 >>
                /\ (e_log[i].result.outcome = "Ok") <=> ParentFilesDeleted(e_in, e_log[i].path)
\* A file is put where the expansion of a was and the metadata file is
\* deleted, while a/f is left as it is: a is found valid with no parent listed.
C28_Witness ==
    /\ e_in.bonsai.parents = << ParentAtH1 >>
    /\ DOMAIN e_in.bonsai.file_changes = { PathA, MetaA }
    /\ e_in.bonsai.file_changes[PathA] = Change("c1")
    /\ e_in.bonsai.file_changes[MetaA] = Deletion
    /\ \E i \in 1..Len(e_log) :
         e_log[i].path = << "a" >> /\ e_log[i].result = Traced(Valid(e_in.bonsai), << >>)
\* A deletion at the expansion path, with a/f of the second parent left:
\* both parents are listed and the validation of a fails.
C28_WitnessDeletion ==
    /\ e_in.bonsai.parents = << ParentFileAtA, ParentAtH1 >>
    /\ DOMAIN e_in.bonsai.file_changes = { PathA, MetaA }
    /\ e_in.bonsai.file_changes[PathA] = Deletion
    /\ \E i \in 1..Len(e_log) :
         /\ e_log[i].path = << "a" >> /\ e_log[i].result.outcome = "Err"
         /\ e_log[i].result.trace = << << "list", 1 >>, << "list", 2 >> >>


(***************************************************************************)
(* One tree diff, step by step: the split of the entries (steps 1 to 3),   *)
(* the fold over the expansion's directories (step 4), the check that      *)
(* nothing is left (step 5) and the recursive diffs (step 6).              *)
(***************************************************************************)
\* What a tree may have at the names f, d and s, and as metadata file of s.
ExpansionChoices ==
    [ f  |-> { << >>, (<< "f" >> :> File("c1", "Regular")), (<< "f" >> :> File("c2", "Regular")) },
      d  |-> { << >>, (<< "d" >> :> File("c1", "Regular")),
               (<< "d", "f" >> :> File("c1", "Regular")), (<< "d", "f" >> :> File("c2", "Regular")) },
      s  |-> { << >>, (<< "s" >> :> File("c1", "Regular")),
               (<< "s", "f" >> :> File("c1", "Regular")), (<< "s", "f" >> :> File("c2", "Regular")) },
      md |-> { << >>,
               (<< x_repo_submodule_metadata_file_basename("s", MetadataPrefix) >>
                  :> File("meta-k1", "Regular")),
               (<< x_repo_submodule_metadata_file_basename("s", MetadataPrefix) >>
                  :> File("meta-k2", "Regular")) } ]
SubmoduleChoices ==
    [ f  |-> { << >>, (<< "f" >> :> File("c1", "Regular")) },
      d  |-> { << >>, (<< "d" >> :> File("c1", "Regular")),
               (<< "d", "f" >> :> File("c1", "Regular")) },
      s  |-> { << >>, (<< "s" >> :> File("gitsm-k1", "GitSubmodule")),
               (<< "s", "f" >> :> File("c1", "Regular")) },
      md |-> { << >> } ]
\* The trees of the choices c.
TreesOf(c) == { f @@ d @@ s @@ md : f \in c.f, d \in c.d, s \in c.s, md \in c.md }

InitDiff ==
    /\ \E expansion \in TreesOf(ExpansionChoices), submodule \in TreesOf(SubmoduleChoices) :
         d_in = EntriesToValidate((<< "s" >> :> "repoS"), "repoA", expansion, submodule)
    /\ d_stage = "called"
    /\ d_data = EntryValidationData(<< >>, << >>, << >>, << >>)
    /\ d_dirs = << >>
    /\ d_trace = << >>
    /\ d_out = Running
    /\ ConnIdle /\ ParamsIdle /\ ValIdle /\ KernelIdle /\ ExpIdle /\ FanIdle /\ ChunkIdle

\* The diff returns r.
DiffReturns(r) == d_stage' = "returned" /\ d_out' = [outcome |-> r.outcome, err |-> r.err, val |-> << >>]

\* Steps 1 to 3.
SplitEntries ==
    /\ d_stage = "called"
    /\ Bind(split_entries(d_in.expansion_fsnode_id, d_in.submodule_repo_fsnode_id), LAMBDA split :
         IF split.outcome = "Ok"
         THEN /\ d_stage' = "fold"
              /\ d_data' = split.val.data
              /\ d_dirs' = split.val.expansion_directories
              /\ UNCHANGED d_out
         ELSE DiffReturns(split) /\ UNCHANGED <<d_data, d_dirs>>)
    /\ UNCHANGED <<d_in, d_trace, connVars, paramsVars, valVars, kernelVars, expVars,
                   fanVars, chunkVars>>

\* Step 4: the try_fold takes the next directory of the expansion, in the
\* order the map yields them.
FoldStep(exp_path) ==
    /\ d_stage = "fold"
    /\ exp_path \in DOMAIN d_dirs
    /\ d_trace' = Append(d_trace, << "fold", exp_path >>)
    /\ Bind(validate_expansion_directory_against_submodule_manifest_entry(
              MetadataPrefix, d_in.submodule_repo, d_in.rec_submodule_repo_deps, d_data,
              exp_path, d_dirs[exp_path].id), LAMBDA r :
         IF r.outcome = "Ok"
         THEN /\ d_data' = r.val
              /\ d_dirs' = MapRemove(d_dirs, exp_path)
              /\ UNCHANGED <<d_stage, d_out>>
         ELSE DiffReturns(r) /\ UNCHANGED <<d_data, d_dirs>>)
    /\ UNCHANGED <<d_in, connVars, paramsVars, valVars, kernelVars, expVars, fanVars, chunkVars>>

\* Step 5, once the fold is through.
AccountFor ==
    /\ d_stage = "fold"
    /\ DOMAIN d_dirs = {}
    /\ d_trace' = Append(d_trace, << "account", "" >>)
    /\ Bind(ensure_accounted_for(d_data), LAMBDA r :
         IF r.outcome = "Ok" THEN d_stage' = "recurse" /\ UNCHANGED d_out
         ELSE DiffReturns(r))
    /\ UNCHANGED <<d_in, d_data, d_dirs, connVars, paramsVars, valVars, kernelVars, expVars,
                   fanVars, chunkVars>>

\* Step 6: the recursive diffs return.
RecursiveDiffs ==
    /\ d_stage = "recurse"
    /\ d_trace' = Append(d_trace, << "recurse", "" >>)
    /\ \E r \in recursive_results(d_data.entries_to_validate) : DiffReturns(r)
    /\ UNCHANGED <<d_in, d_data, d_dirs, connVars, paramsVars, valVars, kernelVars, expVars,
                   fanVars, chunkVars>>

NextDiff ==
    \/ SplitEntries
    \/ \E exp_path \in { "f", "d", "s" } : FoldStep(exp_path)
    \/ AccountFor
    \/ RecursiveDiffs

SpecDiff == InitDiff /\ [][NextDiff]_vars

\* The steps end in what the diff as a whole can return.
DiffStepsAgree ==
    (d_stage = "returned") =>
       \E r \in validate_working_copy_of_expansion_with_recursive_submodules(
                  d_in.rec_submodule_repo_deps, d_in.submodule_repo,
                  d_in.expansion_fsnode_id, d_in.submodule_repo_fsnode_id) :
          r.outcome = d_out.outcome /\ r.err = d_out.err


\* The entries of the two trees of the diff, and those that are on one side
\* only: the entries that differ.
ExpansionEntries == into_subentries(d_in.expansion_fsnode_id)
SubmoduleEntries == into_subentries(d_in.submodule_repo_fsnode_id)
ExpansionOnly == ExpansionEntries \ SubmoduleEntries
SubmoduleOnly == SubmoduleEntries \ ExpansionEntries
NamesOf(entries) == { e[1] : e \in entries }
\* The names the diff has something to do with after the split: those in
\* the maps of the fold, the directories still to take, and the steps taken.
NamesExamined ==
    DOMAIN d_data.remaining_sm_dirs \cup DOMAIN d_data.remaining_sm_files
      \cup DOMAIN d_data.remaining_md_files
      \cup DOMAIN d_dirs
      \cup { d_trace[i][2] : i \in { j \in 1..Len(d_trace) : d_trace[j][1] = "fold" } }
\* A name has an entry in the submodule's tree that differs from the
\* expansion, and no entry of the expansion that differs.
UnmatchedSubmoduleEntry == NamesOf(SubmoduleOnly) \ NamesOf(ExpansionOnly) # {}
ErrNotInExpansion == "Path is in submodule manifest but not in expansion"

\* C29: in a tree diff, the entries that are the same on the expansion's
\* side and on the submodule's side are in none of the maps of the fold, are
\* no directory the fold takes and are never handed to a recursive diff; and
\* if a name has an entry on the submodule's side that differs while the
\* expansion has no differing entry of that name, the diff fails in the
\* split, before any step of the fold and any recursive diff.
C29_EqualEntriesSkippedUnmatchedFail ==
    /\ NamesOf(ExpansionEntries \cap SubmoduleEntries) \cap NamesExamined = {}
    /\ Len(d_data.entries_to_validate) <= Cardinality(NamesOf(ExpansionOnly))
    /\ (UnmatchedSubmoduleEntry /\ d_stage # "called") =>
          /\ d_stage = "returned"
          /\ d_out = Invalid(ErrNotInExpansion)
          /\ d_trace = << >>
\* The trees have the same f; the submodule has a directory d that the
\* expansion lacks: the diff has failed without a step after the split.
C29_Witness ==
    /\ d_stage = "returned" /\ d_out = Invalid(ErrNotInExpansion) /\ d_trace = << >>
    /\ << "f" >> \in DOMAIN d_in.expansion_fsnode_id \cap DOMAIN d_in.submodule_repo_fsnode_id
    /\ d_in.expansion_fsnode_id[<< "f" >>] = d_in.submodule_repo_fsnode_id[<< "f" >>]
    /\ << "d", "f" >> \in DOMAIN d_in.submodule_repo_fsnode_id
    /\ NamesOf(ExpansionEntries) = { "f" }
\* The trees have the same f and differ in d: the diff went through with one
\* step of the fold, for d, and one recursive diff.
C29_WitnessSkipped ==
    /\ d_stage = "returned" /\ d_out.outcome = "Err"
    /\ d_trace = << << "fold", "d" >>, << "account", "" >>, << "recurse", "" >> >>
    /\ NamesOf(ExpansionEntries \cap SubmoduleEntries) = { "f" }
    /\ Len(d_data.entries_to_validate) = 1


\* The entries of the expansion that differ, by whether their name is also
\* the name of an entry of the submodule that differs.
MatchingSubmodule == { e \in ExpansionOnly : e[1] \in NamesOf(SubmoduleOnly) }
ExpansionAlone == { e \in ExpansionOnly : e[1] \notin NamesOf(SubmoduleOnly) }
\* An entry of the expansion is not of the kind its class asks for.
DirectoryAlone == \E e \in ExpansionAlone : e[2].kind = "Directory"
FileMatching == \E e \in MatchingSubmodule : e[2].kind = "File"
ErrNotMetadata == "Paths in expansion and not in submodules should be metadata files"
ErrFileInExpansion == "Path present in submodule manifest can't be a file in expansion"
\* The split is through and the fold has not taken a step yet.
SplitDone == d_stage = "fold" /\ d_trace = << >>

\* C30: in a tree diff, every entry of the expansion that differs from the
\* submodule's side is classified by its name: with a differing entry of the
\* submodule of that name it has to be a directory, and is one of the
\* directories of the fold; without one it has to be a file, and is one of
\* the candidate metadata files.  A differing file of the expansion whose
\* name the submodule has among its differing entries, or a differing
\* directory whose name it has not, makes the diff fail in the split.
C30_DifferingEntriesClassifiedByName ==
    /\ SplitDone =>
         /\ \A e \in MatchingSubmodule :
              e[2].kind = "Directory" /\ e[1] \in DOMAIN d_dirs /\ d_dirs[e[1]] = e[2]
         /\ \A e \in ExpansionAlone :
              /\ e[2].kind = "File"
              /\ e[1] \in DOMAIN d_data.remaining_md_files
              /\ d_data.remaining_md_files[e[1]] = e[2]
         /\ DOMAIN d_dirs = NamesOf(MatchingSubmodule)
         /\ DOMAIN d_data.remaining_md_files = NamesOf(ExpansionAlone)
    /\ ((DirectoryAlone \/ FileMatching) /\ d_stage # "called") =>
         /\ d_stage = "returned" /\ d_out.outcome = "Err" /\ d_trace = << >>
         /\ ~UnmatchedSubmoduleEntry =>
              d_out.err = (IF DirectoryAlone THEN ErrNotMetadata ELSE ErrFileInExpansion)
\* The expansion has a file d where the submodule has a directory d: the
\* diff has failed in the split.
C30_Witness ==
    /\ d_stage = "returned" /\ d_out = Invalid(ErrFileInExpansion) /\ d_trace = << >>
    /\ << "d" >> \in DOMAIN d_in.expansion_fsnode_id
    /\ << "d", "f" >> \in DOMAIN d_in.submodule_repo_fsnode_id
\* The expansion has a directory d that the submodule has not.
C30_WitnessDirectory ==
    /\ d_stage = "returned" /\ d_out = Invalid(ErrNotMetadata) /\ d_trace = << >>
    /\ << "d", "f" >> \in DOMAIN d_in.expansion_fsnode_id
    /\ "d" \notin NamesOf(SubmoduleEntries)
\* The split has gone through with the directories d and s to fold and the
\* metadata file of s as candidate.
C30_WitnessSplit ==
    /\ SplitDone /\ DOMAIN d_dirs = { "d", "s" }
    /\ DOMAIN d_data.remaining_md_files = { x_repo_submodule_metadata_file_basename("s", MetadataPrefix) }


(***************************************************************************)
(* One step of the fold                                                    *)
(***************************************************************************)
\* The fold takes the expansion's directory p in this step, and the step
\* goes through.
FoldTakes(p) == d_stage = "fold" /\ d_trace' = Append(d_trace, << "fold", p >>)
StepSucceeds == d_stage' = "fold"
\* The metadata file the expansion of a recursive submodule at p has to have.
MetadataOf(p) == x_repo_submodule_metadata_file_basename(p, MetadataPrefix)
\* The step for p queues the one diff of the expansion's directory p against
\* the submodule's directory p, in the same repo, and consumes no metadata file.
QueuesDirectoryDiff(p) ==
    /\ StepSucceeds
    /\ d_data'.entries_to_validate =
         Append(d_data.entries_to_validate,
                EntriesToValidate(DepsBelow(d_in.rec_submodule_repo_deps, << p >>),
                                  d_in.submodule_repo, d_dirs[p].id,
                                  d_data.remaining_sm_dirs[p].id))
    /\ d_data'.remaining_md_files = d_data.remaining_md_files
    /\ d_data'.remaining_sm_files = d_data.remaining_sm_files
    /\ d_data'.remaining_sm_dirs = MapRemove(d_data.remaining_sm_dirs, p)
\* p is a GitSubmodule file of the submodule and its metadata file is among
\* the candidates.
IsExpandedSubmodule(p) ==
    /\ p \in DOMAIN d_data.remaining_sm_files
    /\ d_data.remaining_sm_files[p].type = "GitSubmodule"
    /\ MetadataOf(p) \in DOMAIN d_data.remaining_md_files
\* The step for p takes the GitSubmodule file and its metadata file out of
\* the maps and queues one diff.
ConsumesMetadata(p) ==
    /\ d_data'.remaining_md_files = MapRemove(d_data.remaining_md_files, MetadataOf(p))
    /\ d_data'.remaining_sm_files = MapRemove(d_data.remaining_sm_files, p)
    /\ d_data'.remaining_sm_dirs = d_data.remaining_sm_dirs
    /\ Len(d_data'.entries_to_validate) = Len(d_data.entries_to_validate) + 1
FoldStepRight(p) ==
    FoldTakes(p) =>
       IF p \in DOMAIN d_data.remaining_sm_dirs THEN QueuesDirectoryDiff(p)
       ELSE /\ StepSucceeds => (IsExpandedSubmodule(p) /\ ConsumesMetadata(p))
            /\ ~IsExpandedSubmodule(p) =>
                 (d_stage' = "returned" /\ d_out'.outcome = "Err" /\ UNCHANGED d_data)

\* C31: in the step of the fold for a mismatching directory p of the
\* expansion: if p is a directory of the submodule, exactly one recursive
\* diff (the expansion's p against the submodule's p, same repo) is queued
\* and no metadata file is consumed; otherwise the step succeeds only if p
\* is a GitSubmodule file of the submodule and the metadata file named after
\* p is among the expansion-only files, and that file is taken out of them;
\* a file of another type or a missing metadata file makes the step fail.
C31_FoldStepByKind == [][\A p \in { "f", "d", "s" } : FoldStepRight(p)]_vars
\* The fold has taken d, a directory on both sides, and then s, a
\* GitSubmodule file of the submodule, whose metadata file it consumed.
C31_Witness ==
    /\ d_stage = "fold"
    /\ d_trace = << << "fold", "d" >>, << "fold", "s" >> >>
    /\ Len(d_data.entries_to_validate) = 2
    /\ d_data.entries_to_validate[1].submodule_repo = "repoA"
    /\ d_data.entries_to_validate[2].submodule_repo = "repoS"
    /\ DOMAIN d_data.remaining_md_files = {} /\ DOMAIN d_data.remaining_sm_files = {}
\* The step for d has failed: d is a plain file of the submodule.
C31_WitnessNotSubmodule ==
    /\ d_stage = "returned" /\ d_trace = << << "fold", "d" >> >>
    /\ d_out = Invalid("Submodule entry for the same path has to be a submodule file")
\* The step for s has failed: the expansion has no metadata file for s.
C31_WitnessNoMetadata ==
    /\ d_stage = "returned" /\ d_trace = << << "fold", "s" >> >>
    /\ d_out = Invalid("Metadata file not found in path where expansion should be")


(***************************************************************************)
(* The recursive diffs come last                                           *)
(***************************************************************************)
\* The steps of the given kind the diff has taken.
StepsOf(kind) == { i \in 1..Len(d_trace) : d_trace[i][1] = kind }
\* The queued recursive diffs have been started.
RecursionStarted == StepsOf("recurse") # {}

\* C32: within one tree diff no queued recursive diff starts before the fold
\* has taken every mismatching directory, one after the other, and the three
\* maps were found empty; when a step of the fold or one of the three checks
\* fails, none of the queued diffs is executed.
C32_RecursionAfterFoldAndChecks ==
    /\ RecursionStarted =>
         /\ StepsOf("recurse") = { Len(d_trace) }
         /\ StepsOf("account") = { Len(d_trace) - 1 }
         /\ { d_trace[i][2] : i \in StepsOf("fold") } = NamesOf(MatchingSubmodule)
         /\ Cardinality(StepsOf("fold")) = Cardinality(NamesOf(MatchingSubmodule))
         /\ DOMAIN d_dirs = {}
         /\ ~Residual(d_data)
    /\ (d_stage = "returned" /\ (DOMAIN d_dirs # {} \/ Residual(d_data))) =>
         (~RecursionStarted /\ d_out.outcome # "Ok")
\* The fold took s and d, the maps were empty, and the two queued diffs ran;
\* the one of d failed.
C32_Witness ==
    /\ d_stage = "returned" /\ d_out.outcome = "Err"
    /\ d_trace = << << "fold", "s" >>, << "fold", "d" >>, << "account", "" >>, << "recurse", "" >> >>
    /\ Len(d_data.entries_to_validate) = 2
\* The fold took s, the expansion of a recursive submodule, the maps were
\* empty, and the queued diff ran and found the expansion valid.
C32_WitnessValid ==
    /\ d_stage = "returned" /\ d_out.outcome = "Ok"
    /\ d_trace = << << "fold", "s" >>, << "account", "" >>, << "recurse", "" >> >>
    /\ Len(d_data.entries_to_validate) = 1
\* The fold queued a diff for d, a file only in the expansion was left over,
\* and the diff returned the error without running the queued diff.
C32_WitnessNotRun ==
    /\ d_stage = "returned"
    /\ d_out = Invalid("Files present in the expansion are unaccounted for")
    /\ d_trace = << << "fold", "d" >>, << "account", "" >> >>
    /\ Len(d_data.entries_to_validate) = 1


(***************************************************************************)
(* What the caller of the diff gets                                        *)
(***************************************************************************)
\* C33: every violation the tree diff finds is reported to its caller as an
\* error result: a diff that has ended has returned Ok or Err, also when the
\* hash in the metadata file of a recursive submodule is not the hash in the
\* GitSubmodule file of the submodule; the task does not panic.
C33_ViolationsAreErrorResults ==
    (d_stage = "returned") => d_out.outcome \in { "Ok", "Err" }
\* The different hashes alone: the step of the fold that finds them returns
\* an error.
C33_HashMismatchIsError ==
    \A i \in StepsOf("fold") :
       (/\ i = Len(d_trace)
        /\ IsExpandedSubmodule(d_trace[i][2])
        /\ HashBlobs[d_data.remaining_md_files[MetadataOf(d_trace[i][2])].content]
             # HashBlobs[d_data.remaining_sm_files[d_trace[i][2]].content])
          => d_out.outcome = "Err"


(***************************************************************************)
(* The two alternatives of parse_request                                   *)
(***************************************************************************)
\* What the two parsers return on the buffer of the latest call.
BatchOnCall == parse_batchrequest(callbuf)
SingleOnCall == parse_singlerequest(callbuf)
SingleTried ==
    \E i \in 1..Len(alt_branches(callbuf)) : alt_branches(callbuf)[i] = "parse_singlerequest"
\* parse_request commits the first Done of the two parsers, the batch parser
\* being the first.
FirstDoneCommitted ==
    /\ alt_branches(callbuf)[1] = "parse_batchrequest"
    /\ (BatchOnCall.tag = "Done") =>
          (last = OkSome(Batch(BatchOnCall.val)) /\ buf = BatchOnCall.rest)
    /\ (BatchOnCall.tag # "Done" /\ last.kind = "Ok(Some)") =>
          /\ SingleOnCall.tag = "Done"
          /\ last = OkSome(Single(SingleOnCall.val)) /\ buf = SingleOnCall.rest

\* C34 as stated: the batch parser is tried first; when it reports
\* Incomplete the single-command parser is tried on the same buffer; the
\* first Done of the two is committed.
C34_SingleTriedOnIncomplete ==
    Called =>
       /\ FirstDoneCommitted
       /\ (BatchOnCall.tag = "Incomplete") => SingleTried
\* C34: the batch parser is tried first; the single-command parser is tried
\* on the same buffer exactly when the batch parser reports Error, and the
\* first Done of the two is committed; when the batch parser reports
\* Incomplete, parse_request returns Ok(None) without trying the
\* single-command parser.
C34_SingleTriedOnError ==
    Called =>
       /\ FirstDoneCommitted
       /\ SingleTried <=> (BatchOnCall.tag = "Error")
       /\ (BatchOnCall.tag = "Incomplete") => (last = OkNone /\ buf = callbuf)
       /\ (BatchOnCall.tag = "Error" /\ SingleOnCall.tag = "Done") =>
             last = OkSome(Single(SingleOnCall.val))
\* A batch has arrived up to the middle of its commands: the batch parser
\* reports Incomplete, the single-command parser would report Error, and
\* parse_request has returned Ok(None).
C34_Witness ==
    /\ sent.kind = "batch" /\ sent.valid /\ IsProperPrefix(callbuf, sent.enc)
    /\ Len(callbuf) > Len(<<98, 97, 116, 99, 104, 10, 42, 32, 48, 10, 99, 109, 100, 115, 32>> (* "batch\n* 0\ncmds " *))
    /\ BatchOnCall.tag = "Incomplete" /\ SingleOnCall.tag = "Error"
    /\ last = OkNone
\* A single command has been parsed after the batch parser reported Error.
C34_WitnessSingle ==
    /\ sent.kind = "single" /\ callbuf = sent.enc
    /\ BatchOnCall.tag = "Error" /\ SingleTried
    /\ last = OkSome(Single(SingleOnCall.val))

(***************************************************************************)
(* batch_params and parse_cmd called on the arguments of a command of a    *)
(* batch.                                                                  *)
(***************************************************************************)
MaxPairs == 2
MaxCount == 3

\* The parameters a command of a batch may come with.
BatchPairs ==
    { <<<<110, 111, 100, 101, 115>> (* "nodes" *), HexOf(HAB)>>, <<<<107, 101, 121>> (* "key" *), <<97, 44, 98>> (* "a,b" *)>>, <<<<97>> (* "a" *), <<98>> (* "b" *)>>, <<<<120>> (* "x" *), <<>>>> }

\* k=v(,k=v)* with both sides escaped.
EncodeBatchParams(pairs) ==
    Join([i \in 1..Len(pairs) |-> Escape(pairs[i][1]) \o <<61>> (* "=" *) \o Escape(pairs[i][2])], <<44>> (* "," *))

\* Argument strings that are no list of parameters.
BadBatchArgs == { <<120>> (* "x" *), <<97, 61, 98, 44>> (* "a=b," *), <<107, 101, 121, 61, 58, 122>> (* "key=:z" *), <<97, 61, 98, 44, 120>> (* "a=b,x" *), <<44, 97, 61, 98>> (* ",a=b" *) }

\* The commands the arguments are handed to, by name.
BatchNames == { <<104, 101, 108, 108, 111>> (* "hello" *), <<107, 110, 111, 119, 110>> (* "known" *), <<108, 111, 111, 107, 117, 112>> (* "lookup" *) }

\* What is called: the name and the arguments of the command, the
\* parameters the arguments encode if they encode any, and a count.
BatchCalls ==
    { [name |-> n, args |-> EncodeBatchParams(ps), pairs |-> ps, wellformed |-> TRUE,
       count |-> c] : n \in BatchNames, ps \in SeqsUpTo(BatchPairs, MaxPairs), c \in 0..MaxCount }
    \cup { [name |-> n, args |-> a, pairs |-> <<>>, wellformed |-> FALSE, count |-> c] :
           n \in BatchNames, a \in BadBatchArgs, c \in 0..MaxCount }

InitBatch ==
    /\ k_fn = "none"
    /\ k_in \in BatchCalls
    /\ k_out = <<>>
    /\ ConnIdle /\ ParamsIdle /\ ValIdle /\ ExpIdle /\ RestIdle

\* batch_params(k_in.args, k_in.count)
CallBatchParams ==
    /\ k_fn = "none"
    /\ k_fn' = "batch_params"
    /\ k_out' = batch_params(k_in.args, k_in.count)
    /\ UNCHANGED <<k_in, connVars, paramsVars, valVars, expVars, restVars>>

\* parse_cmd on <name>\n<args>, as parse_batchrequest calls it
CallParseCmd ==
    /\ k_fn = "none"
    /\ k_fn' = "parse_cmd"
    /\ k_out' = parse_cmd(Join(<<k_in.name, k_in.args>>, <<10>> (* "\n" *)))
    /\ UNCHANGED <<k_in, connVars, paramsVars, valVars, expVars, restVars>>

NextBatch == CallBatchParams \/ CallParseCmd

SpecBatch == InitBatch /\ [][NextBatch]_vars

\* The request a command of a batch is, by name.
BatchRequestOf(name) ==
    CHOOSE c \in SeqToSet(CommandTable) : c.name = name

\* The keys the constructor of a request cannot do without.
RequiredKeys(req) == { f.key : f \in { g \in SeqToSet(Fields(req)) : g.fn = "parseval" } }

\* C35: batch_params returns the same for every count: the map of the
\* parameters of a list k=v(,k=v)*, the empty map for the empty input; and
\* inside a batch a command is accepted with any number of parameters, none
\* included, as long as the keys its constructor requires are there.
C35_BatchParamsIgnoreCount ==
    /\ k_fn = "batch_params" =>
          /\ \A c \in 0..MaxCount : batch_params(k_in.args, c) = k_out
          /\ k_in.wellformed => k_out = Done(<<>>, MapFromPairs(k_in.pairs))
          /\ k_in.args = <<>> => k_out = Done(<<>>, EmptyMap)
    /\ (k_fn = "parse_cmd" /\ k_in.wellformed
            /\ RequiredKeys(BatchRequestOf(k_in.name).req)
                  \subseteq { k_in.pairs[i][1] : i \in 1..Len(k_in.pairs) })
          => /\ k_out.tag = "Done" /\ k_out.rest = <<>>
             /\ k_out.val.cmd = BatchRequestOf(k_in.name).req

\* hello, which takes no parameter, is accepted with two.
C35_Witness ==
    /\ k_fn = "parse_cmd" /\ k_in.name = <<104, 101, 108, 108, 111>> (* "hello" *) /\ Len(k_in.pairs) = 2
    /\ k_out.tag = "Done" /\ k_out.val = [cmd |-> "Hello"]

\* The empty argument string decodes to the empty map under a count of 3.
C35_WitnessEmpty ==
    /\ k_fn = "batch_params" /\ k_in.args = <<>> /\ k_in.count = MaxCount
    /\ k_out = Done(<<>>, EmptyMap)

\* known is accepted with its nodes and one parameter more.
C35_WitnessKnown ==
    /\ k_fn = "parse_cmd" /\ k_in.name = <<107, 110, 111, 119, 110>> (* "known" *) /\ Len(k_in.pairs) = 2
    /\ k_in.pairs[2][1] = <<97>> (* "a" *)
    /\ k_out.tag = "Done" /\ k_out.val = [cmd |-> "Known", nodes |-> <<HAB>>]

(***************************************************************************)
(* parse_request on the connection: errors, pieces, whole envelopes.       *)
(***************************************************************************)
IsErr(r) == r.kind = "Err(CommandParse)"

\* C36: a call of parse_request that returns Err leaves the buffer as it
\* found it, byte for byte, and the same call made again on it returns the
\* same Err and leaves it again.
C36_ErrLeavesBuffer ==
    (Called /\ IsErr(last)) =>
        /\ buf = callbuf
        /\ parse_request(buf) = [result |-> last, buf |-> callbuf]

\* A buffer no command matches: Err, and the bytes are still there.
C36_Witness ==
    /\ Called /\ IsErr(last) /\ sent.kind = "junk" /\ wire = <<>>
    /\ buf = sent.enc /\ buf # <<>>

\* A whole batch with a command that is none: Err, and the bytes are still there.
C36_WitnessBatch ==
    /\ Called /\ IsErr(last) /\ sent.kind = "batch" /\ wire = <<>> /\ trail = 0
    /\ buf = sent.enc

\* The bytes of a valid encoding that have arrived are the buffer: no call
\* has taken any of them.
ArrivedIsBuffer == (sent.valid /\ trail = 0 /\ wire # <<>>) => buf \o wire = sent.enc

\* A call of parse_request while the valid encoding is arriving or has just
\* arrived, nothing else having been sent.
CallOnDelivery == sent.valid /\ trail = 0 /\ last'.kind # "no call"

\* The call returns Ok(None) and takes nothing as long as bytes are to come;
\* the first call after the last byte returns the request and empties the buffer.
DeliveryStep ==
    CallOnDelivery =>
        IF wire # <<>> THEN last' = OkNone /\ buf' = buf
        ELSE last = NoCall => (last' = OkSome(RequestOf(sent)) /\ buf' = <<>>)

\* C37: the bytes of a valid encoding arrive in non-empty pieces of any
\* sizes and parse_request is called between them: every call made before
\* the last byte has arrived returns Ok(None), and the first call made after
\* it returns Ok(Some(r)), r the request encoded, and leaves the buffer empty.
C37_IncrementalDelivery == []ArrivedIsBuffer /\ [][DeliveryStep]_vars

\* A call between two pieces of a batch.
C37_WitnessBetween ==
    /\ sent.valid /\ sent.kind = "batch" /\ Len(sent.cmds) = 2
    /\ wire # <<>> /\ buf # <<>> /\ last = OkNone /\ callbuf = buf

\* The call after the last piece of a batch.
C37_Witness ==
    /\ sent.valid /\ sent.kind = "batch" /\ Len(sent.cmds) = 2
    /\ wire = <<>> /\ trail = 0 /\ callbuf = sent.enc
    /\ last = OkSome(RequestOf(sent)) /\ buf = <<>>

\* A whole batch envelope is what the call found at the head of the buffer:
\* the command line, the star block and the bytes the length of cmds declares.
WholeEnvelope ==
    /\ sent.kind = "batch" \/ sent.enc = BatchEnvelope(<<>>)
    /\ IsPrefix(sent.enc, callbuf)

\* C38: with a whole batch envelope in the buffer parse_request does not
\* return Ok(None): it returns Ok(Some(Batch(..))) or Err, whatever the
\* commands of the batch are and whatever follows the envelope.
C38_WholeEnvelopeNeverIncomplete ==
    (Called /\ WholeEnvelope) =>
        \/ last.kind = "Ok(Some)" /\ last.val.kind = "Batch"
        \/ IsErr(last)

\* A batch whose second command lacks its parameter: Err.
C38_Witness ==
    /\ Called /\ WholeEnvelope /\ Len(sent.cmds) = 2
    /\ sent.cmds[1] = <<104, 101, 108, 108, 111, 32>> (* "hello " *) /\ sent.cmds[2] = <<107, 110, 111, 119, 110, 32>> (* "known " *)
    /\ callbuf = sent.enc /\ IsErr(last)

\* A batch of two commands with a word after it: the Batch.
C38_WitnessBatch ==
    /\ Called /\ WholeEnvelope /\ Len(sent.cmds) = 2 /\ trail = 1
    /\ last.kind = "Ok(Some)" /\ last.val.kind = "Batch" /\ Len(last.val.val) = 2

\* An envelope without commands: Err.
C38_WitnessEmpty ==
    /\ Called /\ WholeEnvelope /\ sent.enc = BatchEnvelope(<<>>) /\ IsErr(last)

(***************************************************************************)
(* The tree diff: what the fold leaves, and what the recursion descends    *)
(* into.                                                                   *)
(***************************************************************************)
\* The try_fold of step 4 has taken every directory without an error.
FoldCompleted == d_stage = "fold" /\ DOMAIN d_dirs = {}

ErrDirsUnaccounted == "Some directories present in submodule manifest are unaccounted for"
ErrFilesUnaccounted == "Some files present in submodule manifest are unaccounted for"

\* C39: when the fold has completed without error no directory and no file
\* of the submodule's manifest is left unmatched, so the diff never returns
\* the error of either of the two checks on them; what can be left is a
\* file that is only in the expansion.
C39_FoldLeavesOnlyMetadataResidual ==
    /\ FoldCompleted =>
          /\ DOMAIN d_data.remaining_sm_dirs = {}
          /\ DOMAIN d_data.remaining_sm_files = {}
    /\ d_stage = "returned" => d_out.err \notin { ErrDirsUnaccounted, ErrFilesUnaccounted }

\* The fold has taken d and s, and nothing is left.
C39_Witness ==
    /\ FoldCompleted /\ Len(d_trace) = 2
    /\ DOMAIN d_data.remaining_sm_dirs = {} /\ DOMAIN d_data.remaining_sm_files = {}
    /\ DOMAIN d_data.remaining_md_files = {}

\* The fold has taken d, and a metadata file of the expansion is left.
C39_WitnessResidual ==
    /\ FoldCompleted /\ d_trace = << << "fold", "d" >> >>
    /\ DOMAIN d_data.remaining_md_files # {}
    /\ DOMAIN d_data.remaining_sm_dirs = {} /\ DOMAIN d_data.remaining_sm_files = {}

\* The residual is what the diff fails with.
C39_WitnessFails ==
    /\ d_stage = "returned" /\ d_out.err = "Files present in the expansion are unaccounted for"
    /\ Len(d_trace) = 2 /\ d_trace[2] = << "account", "" >>

\* The tree diff driven to its end: the future is polled until it returns,
\* and every load it waits for completes.
SpecDiffLive == InitDiff /\ [][NextDiff]_vars /\ WF_vars(NextDiff)

\* The depth of a tree: the length of its longest path.
TreeDepth(t) ==
    IF DOMAIN t = {} THEN 0
    ELSE CHOOSE n \in { Len(p) : p \in DOMAIN t } : \A p \in DOMAIN t : Len(p) <= n

\* The directories of a tree, by name.
DirectoriesOf(t) == { p[1] : p \in { q \in DOMAIN t : Len(q) > 1 } }

\* The entry compares a directory of the expansion of this diff that the
\* fold has taken: a strict child, less deep than the expansion.
StrictChild(entry) ==
    \E name \in DirectoriesOf(d_in.expansion_fsnode_id) :
       /\ \E i \in DOMAIN d_trace : d_trace[i] = << "fold", name >>
       /\ entry.expansion_fsnode_id = TreeAt(d_in.expansion_fsnode_id, << name >>)
       /\ TreeDepth(entry.expansion_fsnode_id) < TreeDepth(d_in.expansion_fsnode_id)

QueuedAreStrictChildren ==
    \A i \in DOMAIN d_data.entries_to_validate : StrictChild(d_data.entries_to_validate[i])

\* How deep the diffs of a diff go: 0 when it queues none.
RECURSIVE DiffDepth(_, _, _, _)
DiffDepth(deps, repo, expansion, submodule) ==
    Bind(split_entries(expansion, submodule), LAMBDA split :
      IF split.outcome # "Ok" THEN 0
      ELSE LET queued ==
                 UNION { SeqToSet(folded.val.entries_to_validate) :
                         folded \in { r \in fold_results(repo, deps, split.val.data,
                                                         split.val.expansion_directories) :
                                      r.outcome = "Ok" /\ ensure_accounted_for(r.val).outcome = "Ok" } }
               depths == { DiffDepth(e.rec_submodule_repo_deps, e.submodule_repo,
                                     e.expansion_fsnode_id, e.submodule_repo_fsnode_id) : e \in queued }
           IN  IF queued = {} THEN 0
               ELSE 1 + (CHOOSE n \in depths : \A m \in depths : m <= n))

RecursionBounded ==
    DiffDepth(d_in.rec_submodule_repo_deps, d_in.submodule_repo,
              d_in.expansion_fsnode_id, d_in.submodule_repo_fsnode_id)
       <= TreeDepth(d_in.expansion_fsnode_id)

C40_WitnessDepth ==
    /\ d_stage = "returned" /\ d_out.outcome = "Ok"
    /\ DiffDepth(d_in.rec_submodule_repo_deps, d_in.submodule_repo,
                 d_in.expansion_fsnode_id, d_in.submodule_repo_fsnode_id) = 1

=============================================================================
